---- MODULE Spec2Model ----
(***************************************************************************)
(* Model of the card game engine (BaseGame), its state container          *)
(* (GameState, Player, Hand, Deck, Card) and the War and Go Fish rules.   *)
(*                                                                         *)
(* Card objects live on a heap: a reference is <<id, gen>>, where id is   *)
(* the card id split at "-" (<<rank, suit>>) and gen tells apart the      *)
(* objects that carry the same id (gen 0 is the object built with the     *)
(* deck, later ones are made by JSON.parse(JSON.stringify(...))).         *)
(* isFaceUp is the one mutable field of a card object.                    *)
(***************************************************************************)
EXTENDS Integers, Sequences, FiniteSets, TLC

VARIABLES
  game,         \* which rules object the engine was built with
  initialDeck,  \* the card ids of the deck handed to the constructor
  gameState,    \* BaseGame.gameState (the live GameState)
  history,      \* BaseGame.history
  moveHistory,  \* BaseGame.moveHistory
  isFaceUp,     \* heap: card object -> its isFaceUp field
  gens,         \* heap: card id -> number of copies made of it so far
  startCalls,   \* number of start() calls made
  inits,        \* number of start() calls that completed initializeGame
  rewinds,      \* number of successful undo()/restart() calls (capped at 2)
  throws,       \* number of playMove calls ended by an exception (capped at 1)
  lastOp,       \* the last engine call: its name, result and output calls
  truth,        \* observer: values of the live state after start and each accepted move
  snapViews,    \* observer: value of each history entry at the moment it was taken
  mutations,    \* number of direct changes made to a state or its clone (CloneSpec)
  auto          \* the autoPlay call in progress: its argument, counter and position

vars == <<game, initialDeck, gameState, history, moveHistory, isFaceUp, gens,
          startCalls, inits, rewinds, throws, lastOp, truth, snapViews, mutations,
          auto>>

----------------------------------------------------------------------------
(* Bounds *)

MaxHistory == 3
MaxGen == 2
MaxStarts == 2
MaxPlayers == 2
MaxMutations == 2
MaxTurns == 2
MaxDraw == 3
MaxDeckCalls == 3

----------------------------------------------------------------------------
(* Cards, decks and shuffles *)

PlayerIds == <<"p1", "p2", "p3", "p4">>
UnknownPlayerId == "zz"

C(r, s) == <<r, s>>

WarDeck2 == << C("3","H"), C("2","H") >>
WarDeck3 == << C("2","H"), C("2","S"), C("3","H") >>
WarDeck4 == << C("2","H"), C("2","S"), C("3","H"), C("3","S") >>
WarDeck10 == << C("5","H"), C("2","H"), C("3","H"), C("4","H"), C("9","H"),
                C("5","S"), C("2","S"), C("3","S"), C("4","S"), C("8","S") >>

\* dealt in order to two players, the deck is left empty and both hold 3s
FishDeck7 == << C("2","H"), C("3","D"), C("2","D"), C("3","C"),
                C("2","C"), C("3","S"), C("3","H") >>

FishDeck8 == << C("2","H"), C("2","D"), C("2","C"), C("3","H"),
                C("2","S"), C("3","D"), C("3","C"), C("3","S") >>

\* dealt in order to two players, the first gets the four 2s, the second the four 3s
FishDeck8Alt == << C("2","H"), C("3","H"), C("2","D"), C("3","D"),
                   C("2","C"), C("3","C"), C("2","S"), C("3","S") >>

WarDecks == {WarDeck2, WarDeck3, WarDeck4, WarDeck10}

\* dealt in order to two players, the first holds four 4s and three 3s, the
\* second the last 3; two cards stay in the deck
FishDeck16 == << C("4","H"), C("3","S"), C("4","D"), C("2","H"),
                 C("4","C"), C("2","D"), C("4","S"), C("2","C"),
                 C("3","H"), C("5","H"), C("3","D"), C("5","D"),
                 C("3","C"), C("5","C"), C("5","S"), C("2","S") >>

FishDecks == {FishDeck7, FishDeck8, FishDeck8Alt, FishDeck16}

Range(s) == {s[i] : i \in DOMAIN s}

\* the card ids of a deck
CardIds(deck) == Range(deck)

\* the card objects a game built on a deck can hold: the cards of the deck
\* and the copies JSON makes of them
Refs(deck) == CardIds(deck) \X (0..MaxGen)

IdOf(ref) == ref[1]

\* card.id.split("-")[0]
RankStr(ref) == ref[1][1]

\* the permutations of 1..n
AllPerms(n) == {p \in [1..n -> 1..n] : \A i, j \in 1..n : p[i] = p[j] => i = j}

Ident(n) == [i \in 1..n |-> i]

\* swap positions a and b of a permutation
Swap(p, a, b) == [p EXCEPT ![a] = p[b], ![b] = p[a]]

\* the outcomes of Deck.shuffle the model explores: every permutation of a
\* small deck, a fixed few of a large one
ShufflePerms(n) ==
  IF n <= 3 THEN AllPerms(n)
  ELSE {Ident(n), Swap(Ident(n), 1, n), Swap(Ident(n), n - 1, n)}

Permute(s, p) == [i \in 1..Len(s) |-> s[p[i]]]

----------------------------------------------------------------------------
(* Sequence helpers *)

\* Array.prototype.findIndex, 1-based, 0 when absent; found: the set of the
\* indices that satisfy the predicate
FindIndex(found) ==
  IF found = {} THEN 0 ELSE CHOOSE i \in found : \A j \in found : i <= j

RemoveAt(s, i) == [j \in 1..(Len(s) - 1) |-> IF j < i THEN s[j] ELSE s[j + 1]]

Take(s, n) == SubSeq(s, 1, n)
Drop(s, n) == SubSeq(s, n + 1, Len(s))

Min(a, b) == IF a < b THEN a ELSE b

Front(s) == SubSeq(s, 1, Len(s) - 1)

----------------------------------------------------------------------------
(* Hand *)

HandRemoveCard(cards, cardId) ==
  LET index == FindIndex({i \in DOMAIN cards : IdOf(cards[i]) = cardId})
  IN IF index # 0 THEN RemoveAt(cards, index) ELSE cards

\* a removeCards that takes nothing out of the hand
HandRemoveCards_none(cards, idSet) == cards

HandRemoveCards(cards, idSet) == SelectSeq(cards, LAMBDA c : IdOf(c) \notin idSet)

HandAddCards(cards, more) == cards \o more

----------------------------------------------------------------------------
(* Deck *)

DeckAddToTop(cards, card) == <<card>> \o cards

DeckAddToBottom(cards, card) == Append(cards, card)

\* a draw that takes the cards from the bottom of the deck
DeckDraw_fromBottom(cards, count) ==
  LET actualCount == Min(count, Len(cards))
  IN [drawn |-> Drop(cards, Len(cards) - actualCount),
      rest |-> Take(cards, Len(cards) - actualCount)]

DeckDraw(cards, count) ==
  LET actualCount == Min(count, Len(cards))
  IN [drawn |-> Take(cards, actualCount), rest |-> Drop(cards, actualCount)]

----------------------------------------------------------------------------
(* GameState *)

NoCustomState ==
  [keys |-> {}, cardsInPlay |-> <<>>, warMode |-> FALSE, roundWinner |-> "null",
   books |-> <<>>, lastAction |-> "null", gameOver |-> FALSE, anotherTurn |-> FALSE]

NewPlayer(id) == [id |-> id, hand |-> <<>>, score |-> 0]

NewGameState(deck) ==
  [deck |-> deck, discardPile |-> <<>>, players |-> <<>>, currentPlayerId |-> "",
   round |-> 1, customState |-> NoCustomState]

\* index of the player getPlayerById returns, 0 for undefined
getPlayerById(gs, playerId) == FindIndex({i \in DOMAIN gs.players : gs.players[i].id = playerId})

addPlayer(gs, player) ==
  LET players == Append(gs.players, player)
  IN [gs EXCEPT !.players = players,
                !.currentPlayerId =
                   IF Len(players) = 1 /\ gs.currentPlayerId = ""
                   THEN player.id ELSE gs.currentPlayerId]

removePlayer(gs, playerId) ==
  LET index == getPlayerById(gs, playerId)
  IN IF index # 0 THEN [gs EXCEPT !.players = RemoveAt(gs.players, index)] ELSE gs

setCustomState(gs, key, value) ==
  [gs EXCEPT !.customState = [@ EXCEPT !.keys = @ \cup {key}, ![key] = value]]

\* customState[key] ?? defaultValue
getCustomState(gs, key, defaultValue) ==
  IF key \in gs.customState.keys THEN gs.customState[key] ELSE defaultValue

RECURSIVE JsonCards(_, _, _, _)
\* JSON.parse(JSON.stringify(cards)): every card becomes a new object with
\* the same id and the isFaceUp value it has now
JsonCards(cards, fu, gn, acc) ==
  IF cards = <<>> THEN [cards |-> acc, fu |-> fu, gn |-> gn]
  ELSE LET old == Head(cards)
           new == <<IdOf(old), gn[IdOf(old)] + 1>>
       IN JsonCards(Tail(cards), [fu EXCEPT ![new] = fu[old]],
                    [gn EXCEPT ![IdOf(old)] = @ + 1], Append(acc, new))

\* Player.clone: a new player with a new Hand over the same card objects
PlayerClone(p) == [id |-> p.id, hand |-> p.hand, score |-> p.score]

\* GameState.clone: new Deck, Player and Hand containers over the same card
\* objects, customState copied through JSON
clone(gs, fu, gn) ==
  LET copied == JsonCards(gs.customState.cardsInPlay, fu, gn, <<>>)
  IN [gs |-> [deck |-> gs.deck,
              discardPile |-> gs.discardPile,
              players |-> [i \in 1..Len(gs.players) |-> PlayerClone(gs.players[i])],
              currentPlayerId |-> gs.currentPlayerId,
              round |-> gs.round,
              customState |-> [gs.customState EXCEPT !.cardsInPlay = copied.cards]],
      fu |-> copied.fu, gn |-> copied.gn]

\* the model can still make the copies clone needs
CanClone(gs, gn) ==
  \A i \in DOMAIN gs.customState.cardsInPlay :
     gn[IdOf(gs.customState.cardsInPlay[i])] < MaxGen

----------------------------------------------------------------------------
(* Values: what an observer reads from a state *)

CardView(ref, fu) == [id |-> IdOf(ref), isFaceUp |-> fu[ref]]

CardsView(cards, fu) == [i \in 1..Len(cards) |-> CardView(cards[i], fu)]

View(gs, fu) ==
  [deck |-> CardsView(gs.deck, fu),
   discardPile |-> CardsView(gs.discardPile, fu),
   players |-> [i \in 1..Len(gs.players) |->
                  [id |-> gs.players[i].id,
                   hand |-> CardsView(gs.players[i].hand, fu),
                   score |-> gs.players[i].score]],
   currentPlayerId |-> gs.currentPlayerId,
   round |-> gs.round,
   customState |-> [gs.customState EXCEPT !.cardsInPlay = CardsView(@, fu)]]

----------------------------------------------------------------------------
(* Small updates of a player inside a GameState *)

SetHand(gs, i, cards) == [gs EXCEPT !.players[i].hand = cards]

SetScore(gs, i, score) == [gs EXCEPT !.players[i].score = score]

----------------------------------------------------------------------------
(* WarRules *)

WarRankMap(rank) ==
  CASE rank = "2" -> 2 [] rank = "3" -> 3 [] rank = "4" -> 4 [] rank = "5" -> 5
    [] rank = "6" -> 6 [] rank = "7" -> 7 [] rank = "8" -> 8 [] rank = "9" -> 9
    [] rank = "10" -> 10 [] rank = "J" -> 11 [] rank = "Q" -> 12
    [] rank = "K" -> 13 [] rank = "A" -> 14 [] OTHER -> 0

\* a rank function that gives every card the value 0
WarGetCardRank_flat(ref) == 0

WarGetCardRank(ref) == WarRankMap(RankStr(ref))

\* the precondition initializeGame throws on
WarPlayersOk(gs) == Len(gs.players) = 2

\* initializeGame after the player check; perm is the outcome of shuffle
WarInitializeGame(gs, perm) ==
  LET shuffled == Permute(gs.deck, perm)
      totalCards == Len(shuffled)
      cardsPerPlayer == totalCards \div 2
      d1 == DeckDraw(shuffled, cardsPerPlayer)
      d2 == DeckDraw(d1.rest, cardsPerPlayer)
      g1 == SetHand([gs EXCEPT !.deck = d2.rest], 1,
                    HandAddCards(gs.players[1].hand, d1.drawn))
      g2 == SetHand(g1, 2, HandAddCards(gs.players[2].hand, d2.drawn))
      g3 == [g2 EXCEPT !.currentPlayerId = gs.players[1].id]
  IN setCustomState(setCustomState(setCustomState(g3,
        "cardsInPlay", <<>>), "warMode", FALSE), "roundWinner", "null")

WarValidateMove(gs, pi, move) ==
  move.tag = "play" /\ Len(gs.players[pi].hand) > 0

\* index of gameState.players.find((p) => p.id !== id)
OtherIndex(gs, id) == FindIndex({i \in DOMAIN gs.players : gs.players[i].id # id})

\* a handleRoundWin that does not reset warMode
handleRoundWin_leavesWarMode(gs, wi, cards) ==
  LET g1 == SetHand(gs, wi, HandAddCards(gs.players[wi].hand, cards))
      g2 == setCustomState(setCustomState(g1, "cardsInPlay", <<>>),
                           "roundWinner", gs.players[wi].id)
      g3 == SetScore(g2, wi, Len(g2.players[wi].hand))
      oi == OtherIndex(g3, g3.players[wi].id)
  IN SetScore(g3, oi, Len(g3.players[oi].hand))

handleRoundWin(gs, wi, cards) ==
  LET g1 == SetHand(gs, wi, HandAddCards(gs.players[wi].hand, cards))
      g2 == setCustomState(setCustomState(setCustomState(g1,
               "cardsInPlay", <<>>), "warMode", FALSE),
               "roundWinner", gs.players[wi].id)
      g3 == SetScore(g2, wi, Len(g2.players[wi].hand))
      oi == OtherIndex(g3, g3.players[wi].id)
  IN SetScore(g3, oi, Len(g3.players[oi].hand))

RECURSIVE WarCommit(_, _, _, _, _)
\* a war in which only the mover commits cards
WarCommit_oneSided(gs, pi, oi, pile, n) ==
  IF n = 0 THEN [gs |-> gs, pile |-> pile]
  ELSE LET playerWarCard == Head(gs.players[pi].hand)
           g1 == SetHand(gs, pi, HandRemoveCard(gs.players[pi].hand, IdOf(playerWarCard)))
       IN WarCommit(g1, pi, oi, pile \o <<playerWarCard>>, n - 1)

\* the loop that puts n cards of each player face down on the pile
WarCommit(gs, pi, oi, pile, n) ==
  IF n = 0 THEN [gs |-> gs, pile |-> pile]
  ELSE LET playerWarCard == Head(gs.players[pi].hand)
           g1 == SetHand(gs, pi, HandRemoveCard(gs.players[pi].hand, IdOf(playerWarCard)))
           otherPlayerWarCard == Head(g1.players[oi].hand)
           g2 == SetHand(g1, oi, HandRemoveCard(g1.players[oi].hand, IdOf(otherPlayerWarCard)))
       IN WarCommit(g2, pi, oi, pile \o <<playerWarCard, otherPlayerWarCard>>, n - 1)

\* an applyMove that gives the pile of a short tie to the mover when the
\* hands are equal
WarResolve_equalToMover(gs, fu, pi, oi, playerCard, otherPlayerCard, carried) ==
  LET fu2 == [fu EXCEPT ![playerCard] = TRUE, ![otherPlayerCard] = TRUE]
      cardsInPlay == carried \o <<playerCard, otherPlayerCard>>
      \* push changes the array customState holds, when it holds one
      g0 == IF "cardsInPlay" \in gs.customState.keys
            THEN [gs EXCEPT !.customState.cardsInPlay = cardsInPlay] ELSE gs
      playerRank == WarGetCardRank(playerCard)
      otherPlayerRank == WarGetCardRank(otherPlayerCard)
      psize == Len(g0.players[pi].hand)
      osize == Len(g0.players[oi].hand)
      gw == setCustomState(setCustomState(g0, "warMode", TRUE),
                           "cardsInPlay", cardsInPlay)
      committed == WarCommit(gw, pi, oi, cardsInPlay, 3)
  IN [threw |-> FALSE,
      fu |-> fu2,
      gs |-> IF playerRank > otherPlayerRank THEN handleRoundWin(g0, pi, cardsInPlay)
             ELSE IF otherPlayerRank > playerRank THEN handleRoundWin(g0, oi, cardsInPlay)
             ELSE IF psize < 4 \/ osize < 4
                  THEN IF psize >= osize THEN handleRoundWin(gw, pi, cardsInPlay)
                       ELSE handleRoundWin(gw, oi, cardsInPlay)
                  ELSE setCustomState(committed.gs, "cardsInPlay", committed.pile)]

\* an applyMove whose tie never sets warMode
WarResolve_tieKeepsMode(gs, fu, pi, oi, playerCard, otherPlayerCard, carried) ==
  LET fu2 == [fu EXCEPT ![playerCard] = TRUE, ![otherPlayerCard] = TRUE]
      cardsInPlay == carried \o <<playerCard, otherPlayerCard>>
      \* push changes the array customState holds, when it holds one
      g0 == IF "cardsInPlay" \in gs.customState.keys
            THEN [gs EXCEPT !.customState.cardsInPlay = cardsInPlay] ELSE gs
      playerRank == WarGetCardRank(playerCard)
      otherPlayerRank == WarGetCardRank(otherPlayerCard)
      psize == Len(g0.players[pi].hand)
      osize == Len(g0.players[oi].hand)
      gw == setCustomState(g0, "cardsInPlay", cardsInPlay)
      committed == WarCommit(gw, pi, oi, cardsInPlay, 3)
  IN [threw |-> FALSE,
      fu |-> fu2,
      gs |-> IF playerRank > otherPlayerRank THEN handleRoundWin(g0, pi, cardsInPlay)
             ELSE IF otherPlayerRank > playerRank THEN handleRoundWin(g0, oi, cardsInPlay)
             ELSE IF psize < 4 \/ osize < 4
                  THEN IF psize > osize THEN handleRoundWin(gw, pi, cardsInPlay)
                       ELSE handleRoundWin(gw, oi, cardsInPlay)
                  ELSE setCustomState(committed.gs, "cardsInPlay", committed.pile)]

\* the part of applyMove after both cards were taken from the hands
WarResolve(gs, fu, pi, oi, playerCard, otherPlayerCard, carried) ==
  LET fu2 == [fu EXCEPT ![playerCard] = TRUE, ![otherPlayerCard] = TRUE]
      cardsInPlay == carried \o <<playerCard, otherPlayerCard>>
      \* push changes the array customState holds, when it holds one
      g0 == IF "cardsInPlay" \in gs.customState.keys
            THEN [gs EXCEPT !.customState.cardsInPlay = cardsInPlay] ELSE gs
      playerRank == WarGetCardRank(playerCard)
      otherPlayerRank == WarGetCardRank(otherPlayerCard)
      psize == Len(g0.players[pi].hand)
      osize == Len(g0.players[oi].hand)
      gw == setCustomState(setCustomState(g0, "warMode", TRUE),
                           "cardsInPlay", cardsInPlay)
      committed == WarCommit(gw, pi, oi, cardsInPlay, 3)
  IN [threw |-> FALSE,
      fu |-> fu2,
      gs |-> IF playerRank > otherPlayerRank THEN handleRoundWin(g0, pi, cardsInPlay)
             ELSE IF otherPlayerRank > playerRank THEN handleRoundWin(g0, oi, cardsInPlay)
             ELSE IF psize < 4 \/ osize < 4
                  THEN IF psize > osize THEN handleRoundWin(gw, pi, cardsInPlay)
                       ELSE handleRoundWin(gw, oi, cardsInPlay)
                  ELSE setCustomState(committed.gs, "cardsInPlay", committed.pile)]

\* applyMove; threw: reading .id of the undefined top card of an empty hand
\* raises a TypeError and leaves the state as it is at that point
WarApplyMove(gs, fu, pi, move) ==
  IF move.tag # "play" THEN [threw |-> FALSE, fu |-> fu, gs |-> gs]
  ELSE
    LET carried == getCustomState(gs, "cardsInPlay", <<>>)
        oi == getPlayerById(gs, gs.players[OtherIndex(gs, gs.players[pi].id)].id)
        playerCard == Head(gs.players[pi].hand)
        g1 == SetHand(gs, pi, HandRemoveCard(gs.players[pi].hand, IdOf(playerCard)))
    IN IF g1.players[oi].hand = <<>>
       THEN [threw |-> TRUE, fu |-> fu, gs |-> g1]
       ELSE LET otherPlayerCard == Head(g1.players[oi].hand)
                g2 == SetHand(g1, oi, HandRemoveCard(g1.players[oi].hand, IdOf(otherPlayerCard)))
            IN WarResolve(g2, fu, pi, oi, playerCard, otherPlayerCard, carried)

WarIsGameOver(gs) == \E i \in DOMAIN gs.players : Len(gs.players[i].hand) = 0

\* a getWinners that names every player
WarGetWinners_everyone(gs) == [i \in 1..Len(gs.players) |-> gs.players[i].id]

WarGetWinners(gs) ==
  LET winners == SelectSeq(gs.players, LAMBDA p : Len(p.hand) > 0)
  IN [i \in 1..Len(winners) |-> winners[i].id]

\* a getNextPlayerId that names the first player
WarGetNextPlayerId_first(gs) == gs.players[1].id

WarGetNextPlayerId(gs) == gs.players[OtherIndex(gs, gs.currentPlayerId)].id

WarNextTurn(gs) == [gs EXCEPT !.currentPlayerId = WarGetNextPlayerId(gs)]

----------------------------------------------------------------------------
(* CardUtils *)

RECURSIVE DealOneAtATime(_, _, _, _)
\* dealCards with dealOneAtATime: player k of round r draws one card, and
\* gets nothing once the deck is empty (so the remaining rounds are skipped);
\* step counts the draws made so far
DealOneAtATime(gs, cardsPerPlayer, step, n) ==
  IF step >= cardsPerPlayer * n \/ gs.deck = <<>> THEN gs
  ELSE LET k == (step % n) + 1
           d == DeckDraw(gs.deck, 1)
           g1 == IF Len(d.drawn) > 0
                 THEN SetHand([gs EXCEPT !.deck = d.rest], k,
                              HandAddCards(gs.players[k].hand, d.drawn))
                 ELSE gs
       IN DealOneAtATime(g1, cardsPerPlayer, step + 1, n)

\* the keys an object lists first: integer-like ones, ascending
IntegerKeys == <<"2", "3", "4", "5", "6", "7", "8", "9", "10">>

RECURSIVE FirstSeen(_, _)
\* the ranks of the cards in order of first appearance
FirstSeen(cards, acc) ==
  IF cards = <<>> THEN acc
  ELSE IF \E i \in DOMAIN acc : acc[i] = RankStr(Head(cards))
       THEN FirstSeen(Tail(cards), acc)
       ELSE FirstSeen(Tail(cards), Append(acc, RankStr(Head(cards))))

\* Object.keys(groupCardsByRank(cards))
RankKeys(cards) ==
  LET seen == FirstSeen(cards, <<>>)
      isInt(r) == \E i \in DOMAIN IntegerKeys : IntegerKeys[i] = r
  IN SelectSeq(IntegerKeys, LAMBDA r : \E i \in DOMAIN seen : seen[i] = r)
     \o SelectSeq(seen, LAMBDA r : ~isInt(r))

\* groupCardsByRank(cards)[rank]
CardsOfRank(cards, rank) == SelectSeq(cards, LAMBDA c : RankStr(c) = rank)

----------------------------------------------------------------------------
(* GoFishRules *)

\* a player check that lets a single player through
FishPlayersOk_onePlayer(gs) == Len(gs.players) >= 1

FishPlayersOk(gs) == Len(gs.players) >= 2

FishInitializeGame(gs, perm) ==
  LET shuffled == [gs EXCEPT !.deck = Permute(gs.deck, perm)]
      cardsPerPlayer == IF Len(gs.players) > 3 THEN 5 ELSE 7
      dealt == DealOneAtATime(shuffled, cardsPerPlayer, 0, Len(gs.players))
      g1 == [dealt EXCEPT !.currentPlayerId = gs.players[1].id]
  IN setCustomState(setCustomState(setCustomState(g1,
        "books", <<>>), "lastAction", "null"), "gameOver", FALSE)

\* a validateMove that does not ask for a card of the rank in the hand
FishValidateMove_anyRank(gs, pi, move) ==
  IF move.tag # "ask" THEN FALSE
  ELSE IF move.targetPlayerId = gs.players[pi].id THEN FALSE
  ELSE getPlayerById(gs, move.targetPlayerId) # 0

FishValidateMove(gs, pi, move) ==
  IF move.tag # "ask" THEN FALSE
  ELSE IF move.targetPlayerId = gs.players[pi].id THEN FALSE
  ELSE IF getPlayerById(gs, move.targetPlayerId) = 0 THEN FALSE
  ELSE \E i \in DOMAIN gs.players[pi].hand : RankStr(gs.players[pi].hand[i]) = move.rank

\* index of the entry of a player in books, 0 when the player has none
BooksIndex(books, id) == FindIndex({i \in DOMAIN books : books[i].id = id})

RECURSIVE BookLoop(_, _, _, _, _)
\* the loop of checkForBooks over the ranks grouped before the loop
BookLoop(gs, pi, books, grouped, ranks) ==
  IF ranks = <<>> THEN [gs |-> gs, books |-> books]
  ELSE LET rank == Head(ranks)
           cards == CardsOfRank(grouped, rank)
           bi == BooksIndex(books, gs.players[pi].id)
       IN IF Len(cards) = 4
          THEN LET g1 == SetHand(gs, pi, HandRemoveCards(gs.players[pi].hand,
                                                         {IdOf(cards[i]) : i \in 1..4}))
                   b1 == [books EXCEPT ![bi].ranks = Append(@, rank)]
                   g2 == SetScore(g1, pi, Len(b1[bi].ranks))
               IN BookLoop(g2, pi, b1, grouped, Tail(ranks))
          ELSE BookLoop(gs, pi, books, grouped, Tail(ranks))

checkForBooks(gs, pi) ==
  LET hand == gs.players[pi].hand
      books0 == getCustomState(gs, "books", <<>>)
      books1 == IF BooksIndex(books0, gs.players[pi].id) = 0
                THEN Append(books0, [id |-> gs.players[pi].id, ranks |-> <<>>])
                ELSE books0
      done == BookLoop(gs, pi, books1, hand, RankKeys(hand))
  IN setCustomState(done.gs, "books", done.books)

RECURSIVE SumBooks(_)
SumBooks(books) ==
  IF books = <<>> THEN 0 ELSE Len(Head(books).ranks) + SumBooks(Tail(books))

\* an isGameOver that does not skip the player itself when it looks for a
\* holder of the same rank
FishIsGameOver_matchesSelf(gs) ==
  LET books == getCustomState(gs, "books", <<>>)
      totalBooks == SumBooks(books)
      hasRank(p, rank) == \E i \in DOMAIN p.hand : RankStr(p.hand[i]) = rank
  IN IF totalBooks = 13 THEN TRUE
     ELSE IF gs.deck = <<>>
     THEN IF ~(\E i \in DOMAIN gs.players : Len(gs.players[i].hand) > 0) THEN TRUE
          ELSE ~(\E i, j \in DOMAIN gs.players :
                   /\ Len(gs.players[i].hand) # 0
                   /\ Len(gs.players[j].hand) # 0
                   /\ \E k \in DOMAIN gs.players[i].hand :
                        hasRank(gs.players[j], RankStr(gs.players[i].hand[k])))
     ELSE FALSE

FishIsGameOver(gs) ==
  LET books == getCustomState(gs, "books", <<>>)
      totalBooks == SumBooks(books)
      hasRank(p, rank) == \E i \in DOMAIN p.hand : RankStr(p.hand[i]) = rank
  IN IF totalBooks = 13 THEN TRUE
     ELSE IF gs.deck = <<>>
     THEN IF ~(\E i \in DOMAIN gs.players : Len(gs.players[i].hand) > 0) THEN TRUE
          ELSE ~(\E i, j \in DOMAIN gs.players :
                   /\ Len(gs.players[i].hand) # 0
                   /\ gs.players[j].id # gs.players[i].id
                   /\ Len(gs.players[j].hand) # 0
                   /\ \E k \in DOMAIN gs.players[i].hand :
                        hasRank(gs.players[j], RankStr(gs.players[i].hand[k])))
     ELSE FALSE

\* an applyMove that grants another turn when the deck is empty
FishApplyMove_emptyKeepsTurn(gs, fu, pi, move) ==
  LET rank == move.rank
      ti == getPlayerById(gs, move.targetPlayerId)
      targetCards == CardsOfRank(gs.players[ti].hand, rank)
      got ==
        LET g1 == SetHand(gs, ti, HandRemoveCards(gs.players[ti].hand,
                                   {IdOf(targetCards[i]) : i \in DOMAIN targetCards}))
            g2 == SetHand(g1, pi, HandAddCards(g1.players[pi].hand, targetCards))
        IN [gs |-> checkForBooks(g2, pi), action |-> "got"]
      fished ==
        LET d == DeckDraw(gs.deck, 1)
            drawnCard == d.drawn[1]
            g1 == SetHand([gs EXCEPT !.deck = d.rest], pi,
                          HandAddCards(gs.players[pi].hand, d.drawn))
            g2 == setCustomState(g1, "anotherTurn", RankStr(drawnCard) = rank)
        IN [gs |-> checkForBooks(g2, pi),
            action |-> IF RankStr(drawnCard) = rank THEN "fish-another" ELSE "fish-drew"]
      empty == [gs |-> setCustomState(gs, "anotherTurn", TRUE), action |-> "fish-empty"]
      r == IF Len(targetCards) > 0 THEN got
           ELSE IF gs.deck # <<>> THEN fished ELSE empty
      g3 == setCustomState(r.gs, "lastAction", r.action)
  IN [threw |-> FALSE, fu |-> fu,
      gs |-> IF FishIsGameOver(g3) THEN setCustomState(g3, "gameOver", TRUE) ELSE g3]

FishApplyMove(gs, fu, pi, move) ==
  LET rank == move.rank
      ti == getPlayerById(gs, move.targetPlayerId)
      targetCards == CardsOfRank(gs.players[ti].hand, rank)
      got ==
        LET g1 == SetHand(gs, ti, HandRemoveCards(gs.players[ti].hand,
                                   {IdOf(targetCards[i]) : i \in DOMAIN targetCards}))
            g2 == SetHand(g1, pi, HandAddCards(g1.players[pi].hand, targetCards))
        IN [gs |-> checkForBooks(g2, pi), action |-> "got"]
      fished ==
        LET d == DeckDraw(gs.deck, 1)
            drawnCard == d.drawn[1]
            g1 == SetHand([gs EXCEPT !.deck = d.rest], pi,
                          HandAddCards(gs.players[pi].hand, d.drawn))
            g2 == setCustomState(g1, "anotherTurn", RankStr(drawnCard) = rank)
        IN [gs |-> checkForBooks(g2, pi),
            action |-> IF RankStr(drawnCard) = rank THEN "fish-another" ELSE "fish-drew"]
      empty == [gs |-> setCustomState(gs, "anotherTurn", FALSE), action |-> "fish-empty"]
      r == IF Len(targetCards) > 0 THEN got
           ELSE IF gs.deck # <<>> THEN fished ELSE empty
      g3 == setCustomState(r.gs, "lastAction", r.action)
  IN [threw |-> FALSE, fu |-> fu,
      gs |-> IF FishIsGameOver(g3) THEN setCustomState(g3, "gameOver", TRUE) ELSE g3]

RECURSIVE WinnersLoop(_, _, _)
WinnersLoop(books, maxBooks, winners) ==
  IF books = <<>> THEN winners
  ELSE LET b == Head(books)
       IN IF Len(b.ranks) > maxBooks THEN WinnersLoop(Tail(books), Len(b.ranks), <<b.id>>)
          ELSE IF Len(b.ranks) = maxBooks
               THEN WinnersLoop(Tail(books), maxBooks, Append(winners, b.id))
               ELSE WinnersLoop(Tail(books), maxBooks, winners)

FishGetWinners(gs) == WinnersLoop(getCustomState(gs, "books", <<>>), 0, <<>>)

\* a getNextPlayerId that passes over the players without cards
FishGetNextPlayerId_skipsEmptyHands(gs) ==
  IF getCustomState(gs, "anotherTurn", FALSE) THEN gs.currentPlayerId
  ELSE LET currentIndex == getPlayerById(gs, gs.currentPlayerId)
           n == Len(gs.players)
           after(k) == ((currentIndex + k - 1) % n) + 1
           steps == {k \in 1..n : gs.players[after(k)].hand # <<>>}
       IN IF steps = {} THEN gs.players[after(1)].id
          ELSE gs.players[after(CHOOSE k \in steps : \A j \in steps : k <= j)].id

\* a getNextPlayerId that never looks at anotherTurn
FishGetNextPlayerId_noExtraTurn(gs) ==
  LET currentIndex == getPlayerById(gs, gs.currentPlayerId)
      nextIndex == (currentIndex % Len(gs.players)) + 1
  IN gs.players[nextIndex].id

FishGetNextPlayerId(gs) ==
  IF getCustomState(gs, "anotherTurn", FALSE) THEN gs.currentPlayerId
  ELSE LET currentIndex == getPlayerById(gs, gs.currentPlayerId)
           nextIndex == (currentIndex % Len(gs.players)) + 1
       IN gs.players[nextIndex].id

\* a nextTurn that passes the turn on even when an extra turn was granted
FishNextTurn_alwaysNext(gs) ==
  LET currentIndex == getPlayerById(gs, gs.currentPlayerId)
      nextIndex == (currentIndex % Len(gs.players)) + 1
  IN setCustomState([gs EXCEPT !.currentPlayerId = gs.players[nextIndex].id],
                    "anotherTurn", FALSE)

FishNextTurn(gs) ==
  setCustomState([gs EXCEPT !.currentPlayerId = FishGetNextPlayerId(gs)],
                 "anotherTurn", FALSE)

----------------------------------------------------------------------------
(* The rules object the engine delegates to *)

PlayersOk(g, gs) == IF g = "war" THEN WarPlayersOk(gs) ELSE FishPlayersOk(gs)

initializeGame(g, gs, perm) ==
  IF g = "war" THEN WarInitializeGame(gs, perm) ELSE FishInitializeGame(gs, perm)

validateMove(g, gs, pi, move) ==
  IF g = "war" THEN WarValidateMove(gs, pi, move) ELSE FishValidateMove(gs, pi, move)

applyMove(g, gs, fu, pi, move) ==
  IF g = "war" THEN WarApplyMove(gs, fu, pi, move) ELSE FishApplyMove(gs, fu, pi, move)

isGameOver(g, gs) == IF g = "war" THEN WarIsGameOver(gs) ELSE FishIsGameOver(gs)

getWinners(g, gs) == IF g = "war" THEN WarGetWinners(gs) ELSE FishGetWinners(gs)

getCurrentPlayerId(g, gs) == gs.currentPlayerId

getNextPlayerId(g, gs) ==
  IF g = "war" THEN WarGetNextPlayerId(gs) ELSE FishGetNextPlayerId(gs)

nextTurn(g, gs) == IF g = "war" THEN WarNextTurn(gs) ELSE FishNextTurn(gs)

\* a call of a rules predicate: its result and the state it leaves.  Both
\* predicates of both rules only read: hand.size(), hand.getCards() (a copy),
\* deck.isEmpty(), getPlayerById, getCustomState and groupCardsByRank (which
\* builds a new record) assign nothing
validateMoveCall(g, gs, pi, move) == [ret |-> validateMove(g, gs, pi, move), gs |-> gs]

\* an isGameOver that records its answer in customState, as applyMove does
isGameOverCall_setsFlag(g, gs) ==
  [ret |-> isGameOver(g, gs),
   gs |-> IF isGameOver(g, gs) THEN setCustomState(gs, "gameOver", TRUE) ELSE gs]

isGameOverCall(g, gs) == [ret |-> isGameOver(g, gs), gs |-> gs]

----------------------------------------------------------------------------
(* Inputs *)

Ranks == {"2", "3"}

CallerIds == {PlayerIds[i] : i \in 1..MaxPlayers} \cup {UnknownPlayerId}

PlayMove_play == [tag |-> "play", targetPlayerId |-> "", rank |-> ""]

Moves ==
  {PlayMove_play}
  \cup [tag : {"ask"}, targetPlayerId : CallerIds, rank : Ranks]

\* an output adapter that is asked to render at the end of every call
Call_rendersToo(op, ret, err, out) ==
  [op |-> op, ret |-> ret, err |-> err, out |-> Append(out, "renderGameState"),
   again |-> FALSE, over |-> isGameOver(game, gameState)]

\* what the caller and the output adapter saw of a call; again: the call
\* repeats the successful call made right before it; over: the rules said
\* the game was over when the call was made
Call(op, ret, err, out) ==
  [op |-> op, ret |-> ret, err |-> err, out |-> out, again |-> FALSE,
   over |-> isGameOver(game, gameState)]

\* no autoPlay call was made
AutoIdle ==
  [status |-> "idle", maxTurns |-> 0, turnCount |-> 0, attempts |-> 0,
   overAtBegin |-> FALSE]

----------------------------------------------------------------------------
(* BaseGame *)

Init ==
  /\ game \in {"war", "gofish"}
  /\ initialDeck \in (IF game = "war" THEN WarDecks ELSE FishDecks)
  /\ gameState = NewGameState([i \in 1..Len(initialDeck) |-> <<initialDeck[i], 0>>])
  /\ history = <<>>
  /\ moveHistory = <<>>
  /\ isFaceUp = [r \in Refs(initialDeck) |-> FALSE]
  /\ gens = [c \in CardIds(initialDeck) |-> 0]
  /\ startCalls = 0
  /\ inits = 0
  /\ rewinds = 0
  /\ throws = 0
  /\ lastOp = Call("new", "void", "", <<>>)
  /\ truth = <<>>
  /\ snapViews = <<>>
  /\ mutations = 0
  /\ auto = AutoIdle

\* addPlayer, for the players added before the game is dealt
AddPlayer ==
  /\ inits = 0
  /\ Len(gameState.players) < MaxPlayers
  /\ gameState' = addPlayer(gameState, NewPlayer(PlayerIds[Len(gameState.players) + 1]))
  /\ lastOp' = Call("addPlayer", "void", "", <<>>)
  /\ UNCHANGED <<auto, mutations, game, initialDeck, history, moveHistory, isFaceUp, gens, startCalls,
                 inits, rewinds, throws, truth, snapViews>>

\* a start that tests the player count before it saves the state
StartOn_checksFirst(gs) ==
  /\ startCalls < MaxStarts
  /\ Len(history) < MaxHistory
  /\ CanClone(gs, gens)
  /\ startCalls' = startCalls + 1
  /\ IF ~PlayersOk(game, gs)
     THEN /\ lastOp' = Call("start", "throw", "players", <<>>)
          /\ gameState' = gs
          /\ UNCHANGED <<history, snapViews, isFaceUp, gens, inits, truth>>
     ELSE LET saved == clone(gs, isFaceUp, gens)
          IN /\ history' = Append(history, saved.gs)
             /\ snapViews' = Append(snapViews, View(saved.gs, saved.fu))
             /\ isFaceUp' = saved.fu
             /\ gens' = saved.gn
             /\ \E perm \in ShufflePerms(Len(gs.deck)) :
                  /\ gameState' = initializeGame(game, gs, perm)
                  /\ inits' = inits + 1
                  /\ truth' = <<View(gameState', isFaceUp')>>
                  /\ lastOp' = Call("start", "void", "", <<"renderGameState">>)
  /\ UNCHANGED <<mutations, game, initialDeck, moveHistory, rewinds, throws>>

\* start on the game state gs: saveState, then initializeGame (which may
\* throw), then render
StartOn(gs) ==
  /\ startCalls < MaxStarts
  /\ Len(history) < MaxHistory
  /\ CanClone(gs, gens)
  /\ LET saved == clone(gs, isFaceUp, gens)
     IN /\ history' = Append(history, saved.gs)
        /\ snapViews' = Append(snapViews, View(saved.gs, saved.fu))
        /\ isFaceUp' = saved.fu
        /\ gens' = saved.gn
        /\ startCalls' = startCalls + 1
        /\ IF ~PlayersOk(game, gs)
           THEN /\ lastOp' = Call("start", "throw", "players", <<>>)
                /\ gameState' = gs
                /\ UNCHANGED <<inits, truth>>
           ELSE \E perm \in ShufflePerms(Len(gs.deck)) :
                  /\ gameState' = initializeGame(game, gs, perm)
                  /\ inits' = inits + 1
                  /\ truth' = <<View(gameState', isFaceUp')>>
                  /\ lastOp' = Call("start", "void", "", <<"renderGameState">>)
  /\ UNCHANGED <<mutations, game, initialDeck, moveHistory, rewinds, throws>>

Start == StartOn(gameState) /\ UNCHANGED auto

\* a playMove that takes its snapshot before the checks
Rejected_snapshotFirst(err) ==
  /\ Len(history) < MaxHistory
  /\ lastOp' = Call("playMove", "false", err, <<"showError">>)
  /\ history' = Append(history, gameState)
  /\ snapViews' = Append(snapViews, View(gameState, isFaceUp))
  /\ UNCHANGED <<mutations, game, initialDeck, gameState, moveHistory, isFaceUp, gens,
                 startCalls, inits, rewinds, throws, truth>>

\* the three early returns of playMove
Rejected(err) ==
  /\ lastOp' = Call("playMove", "false", err, <<"showError">>)
  /\ UNCHANGED <<mutations, game, initialDeck, gameState, history, moveHistory, isFaceUp, gens,
                 startCalls, inits, rewinds, throws, truth, snapViews>>

\* playMove from saveState on, for a move that passed the three checks
Accepted(pi, move) ==
  /\ Len(history) < MaxHistory
  /\ CanClone(gameState, gens)
  /\ LET saved == clone(gameState, isFaceUp, gens)
         applied == applyMove(game, gameState, saved.fu, pi, move)
     IN /\ history' = Append(history, saved.gs)
        /\ snapViews' = Append(snapViews, View(saved.gs, saved.fu))
        /\ gens' = saved.gn
        /\ isFaceUp' = applied.fu
        /\ IF applied.threw
           THEN /\ gameState' = applied.gs
                /\ lastOp' = Call("playMove", "throw", "TypeError", <<>>)
                /\ throws' = 1
                /\ UNCHANGED <<moveHistory, truth>>
           ELSE /\ moveHistory' = Append(moveHistory, [playerId |-> gameState.players[pi].id,
                                                        move |-> move])
                /\ IF isGameOver(game, applied.gs)
                   THEN /\ gameState' = applied.gs
                        /\ lastOp' = Call("playMove", "true", "", <<"showGameOver">>)
                   ELSE /\ gameState' = nextTurn(game, applied.gs)
                        /\ lastOp' = Call("playMove", "true", "", <<"renderGameState">>)
                /\ truth' = Append(truth, View(gameState', isFaceUp'))
                /\ UNCHANGED throws
  /\ UNCHANGED <<mutations, game, initialDeck, startCalls, inits, rewinds>>

\* a playMove that turns every move down once the game is over
playMove_refusesWhenOver(playerId, move) ==
  LET pi == getPlayerById(gameState, playerId)
  IN IF pi = 0 THEN Rejected("notfound")
     ELSE IF playerId # getCurrentPlayerId(game, gameState) THEN Rejected("turn")
     ELSE IF isGameOver(game, gameState) THEN Rejected("invalid")
     ELSE IF ~validateMove(game, gameState, pi, move) THEN Rejected("invalid")
     ELSE Accepted(pi, move)

playMove(playerId, move) ==
  LET pi == getPlayerById(gameState, playerId)
  IN IF pi = 0 THEN Rejected("notfound")
     ELSE IF playerId # getCurrentPlayerId(game, gameState) THEN Rejected("turn")
     ELSE IF ~validateMove(game, gameState, pi, move) THEN Rejected("invalid")
     ELSE Accepted(pi, move)

PlayMove(playerId, move) == playMove(playerId, move) /\ UNCHANGED auto

\* an undo that drops the only history entry before it reports the error
Undo_dropsLast ==
  IF Len(history) <= 1
  THEN /\ lastOp' = Call("undo", "false", "empty", <<"showError">>)
       /\ history' = <<>>
       /\ snapViews' = <<>>
       /\ UNCHANGED <<auto, mutations, game, initialDeck, gameState, moveHistory, isFaceUp, gens,
                      startCalls, inits, rewinds, throws, truth>>
  ELSE /\ CanClone(history[Len(history) - 1], gens)
       /\ LET restored == clone(history[Len(history) - 1], isFaceUp, gens)
          IN /\ history' = Front(history)
             /\ moveHistory' = Front(moveHistory)
             /\ gameState' = restored.gs
             /\ isFaceUp' = restored.fu
             /\ gens' = restored.gn
       /\ snapViews' = Front(snapViews)
       /\ truth' = Front(truth)
       /\ rewinds' = Min(rewinds + 1, 2)
       /\ lastOp' = Call("undo", "true", "", <<"renderGameState">>)
       /\ UNCHANGED <<auto, mutations, game, initialDeck, startCalls, inits, throws>>

\* an undo that restores the entry it has just popped
Undo_restoresPopped ==
  IF Len(history) <= 1
  THEN /\ lastOp' = Call("undo", "false", "empty", <<"showError">>)
       /\ UNCHANGED <<auto, mutations, game, initialDeck, gameState, history, moveHistory, isFaceUp, gens,
                      startCalls, inits, rewinds, throws, truth, snapViews>>
  ELSE /\ CanClone(history[Len(history)], gens)
       /\ LET restored == clone(history[Len(history)], isFaceUp, gens)
          IN /\ history' = Front(history)
             /\ moveHistory' = Front(moveHistory)
             /\ gameState' = restored.gs
             /\ isFaceUp' = restored.fu
             /\ gens' = restored.gn
       /\ snapViews' = Front(snapViews)
       /\ truth' = Front(truth)
       /\ rewinds' = Min(rewinds + 1, 2)
       /\ lastOp' = Call("undo", "true", "", <<"renderGameState">>)
       /\ UNCHANGED <<auto, mutations, game, initialDeck, startCalls, inits, throws>>

Undo ==
  IF Len(history) <= 1
  THEN /\ lastOp' = Call("undo", "false", "empty", <<"showError">>)
       /\ UNCHANGED <<auto, mutations, game, initialDeck, gameState, history, moveHistory, isFaceUp, gens,
                      startCalls, inits, rewinds, throws, truth, snapViews>>
  ELSE /\ CanClone(history[Len(history) - 1], gens)
       /\ LET restored == clone(history[Len(history) - 1], isFaceUp, gens)
          IN /\ history' = Front(history)
             /\ moveHistory' = Front(moveHistory)
             /\ gameState' = restored.gs
             /\ isFaceUp' = restored.fu
             /\ gens' = restored.gn
       /\ snapViews' = Front(snapViews)
       /\ truth' = Front(truth)
       /\ rewinds' = Min(rewinds + 1, 2)
       /\ lastOp' = Call("undo", "true", "", <<"renderGameState">>)
       /\ UNCHANGED <<auto, mutations, game, initialDeck, startCalls, inits, throws>>

\* a restart that restores the first snapshot but keeps the whole history
Restart_keepsHistory ==
  IF Len(history) = 0
  THEN /\ lastOp' = Call("restart", "void", "empty", <<"showError">>)
       /\ UNCHANGED <<auto, mutations, game, initialDeck, gameState, history, moveHistory, isFaceUp, gens,
                      startCalls, inits, rewinds, throws, truth, snapViews>>
  ELSE /\ gameState' = history[1]
       /\ moveHistory' = <<>>
       /\ rewinds' = Min(rewinds + 1, 2)
       /\ lastOp' = [Call("restart", "void", "", <<"renderGameState">>)
                       EXCEPT !.again = (lastOp.op = "restart" /\ lastOp.err = "")]
       /\ UNCHANGED <<auto, mutations, game, initialDeck, history, isFaceUp, gens, startCalls, inits,
                      throws, truth, snapViews>>

Restart ==
  IF Len(history) = 0
  THEN /\ lastOp' = Call("restart", "void", "empty", <<"showError">>)
       /\ UNCHANGED <<auto, mutations, game, initialDeck, gameState, history, moveHistory, isFaceUp, gens,
                      startCalls, inits, rewinds, throws, truth, snapViews>>
  ELSE /\ CanClone(history[1], gens)
       /\ LET restored == clone(history[1], isFaceUp, gens)
          IN /\ gameState' = restored.gs
             /\ isFaceUp' = restored.fu
             /\ gens' = restored.gn
       /\ history' = <<history[1]>>
       /\ moveHistory' = <<>>
       /\ snapViews' = <<snapViews[1]>>
       /\ truth' = Take(truth, Min(1, Len(truth)))
       /\ rewinds' = Min(rewinds + 1, 2)
       /\ lastOp' = [Call("restart", "void", "", <<"renderGameState">>)
                       EXCEPT !.again = (lastOp.op = "restart" /\ lastOp.err = "")]
       /\ UNCHANGED <<auto, mutations, game, initialDeck, startCalls, inits, throws>>

Next ==
  \/ AddPlayer
  \/ Start
  \/ \E playerId \in CallerIds, move \in Moves : PlayMove(playerId, move)
  \/ Undo
  \/ Restart

Spec == Init /\ [][Next]_vars

----------------------------------------------------------------------------
(* WarGame.autoPlay and GoFishGame.autoPlay.  A call is followed turn by   *)
(* turn (each turn ends in an await); the caller awaits the call, so the   *)
(* engine is called directly only while no autoPlay call is in progress.   *)
(* The calls that lead to an autoPlay call are addPlayer, start, playMove.  *)

AutoAddPlayer == auto.status = "idle" /\ AddPlayer

AutoStart == auto.status = "idle" /\ Start

AutoPlayMove(playerId, move) == auto.status = "idle" /\ PlayMove(playerId, move)

\* a turn that made no engine call, or a failure outside of playMove
NoMove(op, ret, err, out) ==
  /\ lastOp' = Call(op, ret, err, out)
  /\ UNCHANGED <<mutations, game, initialDeck, gameState, history, moveHistory, isFaceUp,
                 gens, startCalls, inits, rewinds, throws, truth, snapViews>>

\* an autoPlay that counts only the turns whose move was accepted
AutoCount_acceptedOnly(a, ret) ==
  IF ret = "throw" THEN [a EXCEPT !.status = "thrown", !.attempts = @ + 1]
  ELSE IF ret = "true" THEN [a EXCEPT !.turnCount = @ + 1, !.attempts = @ + 1]
  ELSE [a EXCEPT !.attempts = @ + 1]

\* the loop body after the turn: turnCount++, unless the turn threw, which
\* ends the call; attempts observes the turns attempted
AutoCount(a, ret) ==
  IF ret = "throw" THEN [a EXCEPT !.status = "thrown", !.attempts = @ + 1]
  ELSE [a EXCEPT !.turnCount = @ + 1, !.attempts = @ + 1]

\* the call autoPlay(maxTurns) up to its loop; GoFishGame seats two AI
\* players and starts the game when fewer than two players are seated
AutoPlayBegin(maxTurns) ==
  /\ auto.status = "idle"
  /\ IF game = "gofish" /\ Len(gameState.players) < 2
     THEN /\ StartOn(addPlayer(addPlayer(gameState, NewPlayer("ai-1")), NewPlayer("ai-2")))
          /\ auto' = [status |-> IF lastOp'.ret = "throw" THEN "thrown" ELSE "running",
                      maxTurns |-> maxTurns, turnCount |-> 0, attempts |-> 0,
                      overAtBegin |-> isGameOver(game, gameState')]
     ELSE /\ auto' = [status |-> "running", maxTurns |-> maxTurns, turnCount |-> 0,
                      attempts |-> 0, overAtBegin |-> isGameOver(game, gameState)]
          /\ UNCHANGED <<mutations, game, initialDeck, gameState, history, moveHistory,
                         isFaceUp, gens, startCalls, inits, rewinds, throws, lastOp, truth,
                         snapViews>>

\* WarGame.playTurn
playTurn ==
  LET currentPlayer == getPlayerById(gameState, getCurrentPlayerId(game, gameState))
  IN IF currentPlayer = 0 THEN NoMove("playTurn", "false", "nocurrent", <<"showError">>)
     ELSE playMove(gameState.players[currentPlayer].id, PlayMove_play)

\* GoFishGame.playAITurn for the current player, with the two random picks
playAITurn ==
  LET aiPlayer == getPlayerById(gameState, getCurrentPlayerId(game, gameState))
  IN IF aiPlayer = 0 THEN NoMove("playAITurn", "throw", "TypeError", <<>>)
     ELSE LET hand == gameState.players[aiPlayer].hand
              ranks == {RankStr(hand[i]) : i \in DOMAIN hand}
              otherPlayers == {i \in DOMAIN gameState.players :
                                 /\ i # aiPlayer
                                 /\ Len(gameState.players[i].hand) > 0}
          IN IF hand = <<>> \/ otherPlayers = {}
             THEN NoMove("playAITurn", "false", "nomove", <<>>)
             ELSE \E selectedRank \in ranks, targetPlayer \in otherPlayers :
                    playMove(gameState.players[aiPlayer].id,
                             [tag |-> "ask",
                              targetPlayerId |-> gameState.players[targetPlayer].id,
                              rank |-> selectedRank])

\* the loop test of autoPlay
AutoLoops ==
  /\ ~getCustomState(gameState, "gameOver", FALSE)
  /\ auto.turnCount < auto.maxTurns

\* one iteration of the loop
AutoPlayTurn ==
  /\ auto.status = "running"
  /\ AutoLoops
  /\ auto.attempts <= MaxTurns
  /\ IF game = "war" THEN playTurn ELSE playAITurn
  /\ auto' = AutoCount(auto, lastOp'.ret)

\* the loop test fails: the message after the loop, and the call returns
AutoPlayEnd ==
  /\ auto.status = "running"
  /\ ~AutoLoops
  /\ auto' = [auto EXCEPT !.status = "returned"]
  /\ lastOp' = Call("autoPlay", "void", "",
                    IF auto.turnCount >= auto.maxTurns THEN <<"showMessage">> ELSE <<>>)
  /\ UNCHANGED <<mutations, game, initialDeck, gameState, history, moveHistory, isFaceUp,
                 gens, startCalls, inits, rewinds, throws, truth, snapViews>>

AutoNext ==
  \/ AutoAddPlayer
  \/ AutoStart
  \/ \E playerId \in CallerIds, move \in Moves : AutoPlayMove(playerId, move)
  \/ \E maxTurns \in 0..MaxTurns : AutoPlayBegin(maxTurns)
  \/ AutoPlayTurn
  \/ AutoPlayEnd

AutoSpec == Init /\ [][AutoNext]_vars

----------------------------------------------------------------------------
(* The Deck of a new game, called directly: draw(count), addToTop(card)    *)
(* and addToBottom(card) with a card that is not in the deck.  lastOp      *)
(* records the call with its argument, the cards it returned, the deck     *)
(* before it, and the call made before it.                                 *)

DeckCalled(op, count, card, cards, deck) ==
  /\ mutations < MaxDeckCalls
  /\ mutations' = mutations + 1
  /\ gameState' = [gameState EXCEPT !.deck = deck]
  /\ lastOp' = [op |-> op, count |-> count, card |-> card, cards |-> cards,
                before |-> gameState.deck, prevOp |-> lastOp.op,
                prevCard |-> IF lastOp.op \in {"addToTop", "addToBottom"}
                             THEN lastOp.card ELSE <<>>]
  /\ UNCHANGED <<auto, game, initialDeck, history, moveHistory, isFaceUp, gens,
                 startCalls, inits, rewinds, throws, truth, snapViews>>

\* the cards of the game that are not in the deck
OutOfDeck == {<<id, 0>> : id \in CardIds(initialDeck)} \ Range(gameState.deck)

\* deck.draw(count)
DeckDrawCall(count) ==
  LET d == DeckDraw(gameState.deck, count)
  IN DeckCalled("draw", count, <<>>, d.drawn, d.rest)

\* deck.addToTop(card)
DeckAddToTopCall(card) ==
  DeckCalled("addToTop", 0, card, <<>>, DeckAddToTop(gameState.deck, card))

\* deck.addToBottom(card)
DeckAddToBottomCall(card) ==
  DeckCalled("addToBottom", 0, card, <<>>, DeckAddToBottom(gameState.deck, card))

DeckNext ==
  \/ \E count \in 0..MaxDraw : DeckDrawCall(count)
  \/ \E card \in OutOfDeck : DeckAddToTopCall(card)
  \/ \E card \in OutOfDeck : DeckAddToBottomCall(card)

DeckSpec == Init /\ [][DeckNext]_vars

----------------------------------------------------------------------------
(* A GameState and its clone, each changed directly through the methods of *)
(* GameState, Deck, Hand, Player and Card.  gameState is the original s,   *)
(* history[1] holds c = s.clone().                                          *)

\* Card.flip
CardFlip(fu, ref) == [fu EXCEPT ![ref] = ~fu[ref]]

\* the state a game is in after dealing to two players and k applied moves
RECURSIVE Played(_, _, _, _)
Played(g, gs, fu, k) ==
  IF k = 0 THEN [gs |-> gs, fu |-> fu]
  ELSE LET pi == getPlayerById(gs, getCurrentPlayerId(g, gs))
           applied == applyMove(g, gs, fu, pi, PlayMove_play)
       IN Played(g, nextTurn(g, applied.gs), applied.fu, k - 1)

CloneInit ==
  /\ game \in {"war", "gofish"}
  /\ initialDeck \in (IF game = "war" THEN WarDecks ELSE FishDecks)
  /\ \E perm \in ShufflePerms(Len(initialDeck)), k \in 0..1 :
       LET fresh == NewGameState([i \in 1..Len(initialDeck) |-> <<initialDeck[i], 0>>])
           seated == addPlayer(addPlayer(fresh, NewPlayer(PlayerIds[1])),
                               NewPlayer(PlayerIds[2]))
           dealt == initializeGame(game, seated, perm)
           played == Played(game, dealt, [r \in Refs(initialDeck) |-> FALSE], k)
       IN /\ k = 1 => (game = "war" /\ Len(initialDeck) > 4)
          /\ gameState = played.gs
          /\ isFaceUp = played.fu
  /\ lastOp = Call("new", "void", "", <<>>)
  /\ history = <<>>
  /\ moveHistory = <<>>
  /\ gens = [c \in CardIds(initialDeck) |-> 0]
  /\ startCalls = 0
  /\ inits = 0
  /\ rewinds = 0
  /\ throws = 0
  /\ truth = <<>>
  /\ snapViews = <<>>
  /\ mutations = 0
  /\ auto = AutoIdle

CloneFrame == UNCHANGED <<auto, game, initialDeck, moveHistory, startCalls, inits, rewinds,
                          throws, truth, snapViews>>

\* c = s.clone()
TakeClone ==
  /\ history = <<>>
  /\ LET made == clone(gameState, isFaceUp, gens)
     IN /\ history' = <<made.gs>>
        /\ isFaceUp' = made.fu
        /\ gens' = made.gn
  /\ lastOp' = Call("clone", "void", "", <<>>)
  /\ UNCHANGED <<gameState, mutations>>
  /\ CloneFrame

Sides == {"s", "c"}

Side(side) == IF side = "s" THEN gameState ELSE history[1]

\* the change is made to one of the two objects and to the shared heap
Mutated(side, kind, gs, fu) ==
  /\ history # <<>>
  /\ mutations < MaxMutations
  /\ mutations' = mutations + 1
  /\ IF side = "s" THEN gameState' = gs /\ UNCHANGED history
     ELSE history' = <<gs>> /\ UNCHANGED gameState
  /\ isFaceUp' = fu
  /\ lastOp' = Call("mutate", "void", side, <<kind>>)
  /\ UNCHANGED gens
  /\ CloneFrame

\* x.deck.draw(1)
MutateDeckDraw(side) ==
  /\ history # <<>>
  /\ Side(side).deck # <<>>
  /\ Mutated(side, "deck.draw",
             [Side(side) EXCEPT !.deck = DeckDraw(@, 1).rest], isFaceUp)

\* x.discardPile.addToTop(x.deck.draw(1)[0])
MutateDiscard(side) ==
  /\ history # <<>>
  /\ Side(side).deck # <<>>
  /\ Mutated(side, "discardPile.addToTop",
             [Side(side) EXCEPT !.deck = DeckDraw(@, 1).rest,
                                !.discardPile = DeckAddToTop(@, Side(side).deck[1])],
             isFaceUp)

\* x.discardPile.draw(1)
MutateDiscardDraw(side) ==
  /\ history # <<>>
  /\ Side(side).discardPile # <<>>
  /\ Mutated(side, "discardPile.draw",
             [Side(side) EXCEPT !.discardPile = DeckDraw(@, 1).rest], isFaceUp)

\* x.players[i].hand.removeCard(id of its first card)
MutateHandRemove(side, i) ==
  /\ history # <<>>
  /\ i \in DOMAIN Side(side).players
  /\ Side(side).players[i].hand # <<>>
  /\ Mutated(side, "hand.removeCard",
             SetHand(Side(side), i,
                     HandRemoveCard(Side(side).players[i].hand,
                                    IdOf(Side(side).players[i].hand[1]))),
             isFaceUp)

\* x.players[i].hand.addCards(x.deck.draw(1))
MutateHandAdd(side, i) ==
  /\ history # <<>>
  /\ i \in DOMAIN Side(side).players
  /\ Side(side).deck # <<>>
  /\ Mutated(side, "hand.addCards",
             SetHand([Side(side) EXCEPT !.deck = DeckDraw(@, 1).rest], i,
                     HandAddCards(Side(side).players[i].hand,
                                  DeckDraw(Side(side).deck, 1).drawn)),
             isFaceUp)

\* x.players[i].setScore(score + 1)
MutateScore(side, i) ==
  /\ history # <<>>
  /\ i \in DOMAIN Side(side).players
  /\ Mutated(side, "setScore",
             SetScore(Side(side), i, Side(side).players[i].score + 1), isFaceUp)

\* x.players[i].hand.getCards()[0].flip()
MutateFlipHand(side, i) ==
  /\ history # <<>>
  /\ i \in DOMAIN Side(side).players
  /\ Side(side).players[i].hand # <<>>
  /\ Mutated(side, "hand.card.flip", Side(side),
             CardFlip(isFaceUp, Side(side).players[i].hand[1]))

\* x.deck.getCards()[0].flip()
MutateFlipDeck(side) ==
  /\ history # <<>>
  /\ Side(side).deck # <<>>
  /\ Mutated(side, "deck.card.flip", Side(side), CardFlip(isFaceUp, Side(side).deck[1]))

\* x.customState.cardsInPlay[0].isFaceUp = !x.customState.cardsInPlay[0].isFaceUp
MutateFlipInPlay(side) ==
  /\ history # <<>>
  /\ Side(side).customState.cardsInPlay # <<>>
  /\ Mutated(side, "customState.card.isFaceUp", Side(side),
             CardFlip(isFaceUp, Side(side).customState.cardsInPlay[1]))

\* x.customState.cardsInPlay.pop(), a write inside a nested value
MutateInPlayPop(side) ==
  /\ history # <<>>
  /\ Side(side).customState.cardsInPlay # <<>>
  /\ Mutated(side, "customState.cardsInPlay.pop",
             [Side(side) EXCEPT !.customState.cardsInPlay = Front(@)], isFaceUp)

\* x.setCustomState("warMode", !warMode)
MutateCustom(side) ==
  /\ history # <<>>
  /\ Mutated(side, "setCustomState",
             setCustomState(Side(side), "warMode",
                            ~getCustomState(Side(side), "warMode", FALSE)), isFaceUp)

\* the first id of PlayerIds that no player of the state has
FreshId(gs) ==
  PlayerIds[FindIndex({i \in DOMAIN PlayerIds : getPlayerById(gs, PlayerIds[i]) = 0})]

\* x.addPlayer(new Player(...)), the new player's id not in use
MutateAddPlayer(side) ==
  /\ history # <<>>
  /\ Len(Side(side).players) < MaxPlayers + 1
  /\ Mutated(side, "addPlayer", addPlayer(Side(side), NewPlayer(FreshId(Side(side)))),
             isFaceUp)

\* x.removePlayer(id of the first player)
MutateRemovePlayer(side) ==
  /\ history # <<>>
  /\ Side(side).players # <<>>
  /\ Mutated(side, "removePlayer",
             removePlayer(Side(side), Side(side).players[1].id), isFaceUp)

ThirteenRanks == <<"2", "3", "4", "5", "6", "7", "8", "9", "10", "J", "Q", "K", "A">>

\* x.setCustomState("books", {[first player]: [all thirteen ranks]})
MutateBooks(side) ==
  /\ history # <<>>
  /\ Side(side).players # <<>>
  /\ Mutated(side, "setCustomState.books",
             setCustomState(Side(side), "books",
                            <<[id |-> Side(side).players[1].id, ranks |-> ThirteenRanks]>>),
             isFaceUp)

\* a call of a rules predicate on one of the two objects: the object is left
\* as the call leaves it
Called(side, kind, ret, gs) ==
  /\ history # <<>>
  /\ mutations < MaxMutations
  /\ mutations' = mutations + 1
  /\ IF side = "s" THEN gameState' = gs /\ UNCHANGED history
     ELSE history' = <<gs>> /\ UNCHANGED gameState
  /\ lastOp' = Call(kind, IF ret THEN "true" ELSE "false", side, <<>>)
  /\ UNCHANGED <<isFaceUp, gens>>
  /\ CloneFrame

\* rules.validateMove(x, x.players[i], move)
CallValidateMove(side, i, move) ==
  /\ history # <<>>
  /\ i \in DOMAIN Side(side).players
  /\ Called(side, "validateMove", validateMoveCall(game, Side(side), i, move).ret,
            validateMoveCall(game, Side(side), i, move).gs)

\* rules.isGameOver(x)
CallIsGameOver(side) ==
  /\ history # <<>>
  /\ Called(side, "isGameOver", isGameOverCall(game, Side(side)).ret,
            isGameOverCall(game, Side(side)).gs)

CloneNext ==
  \/ TakeClone
  \/ \E side \in Sides : MutateBooks(side)
  \/ \E side \in Sides, i \in 1..2, move \in Moves : CallValidateMove(side, i, move)
  \/ \E side \in Sides : CallIsGameOver(side)
  \/ \E side \in Sides : MutateDeckDraw(side)
  \/ \E side \in Sides : MutateDiscard(side)
  \/ \E side \in Sides : MutateDiscardDraw(side)
  \/ \E side \in Sides, i \in 1..2 : MutateHandRemove(side, i)
  \/ \E side \in Sides, i \in 1..2 : MutateHandAdd(side, i)
  \/ \E side \in Sides, i \in 1..2 : MutateScore(side, i)
  \/ \E side \in Sides, i \in 1..2 : MutateFlipHand(side, i)
  \/ \E side \in Sides : MutateFlipDeck(side)
  \/ \E side \in Sides : MutateFlipInPlay(side)
  \/ \E side \in Sides : MutateInPlayPop(side)
  \/ \E side \in Sides : MutateCustom(side)
  \/ \E side \in Sides : MutateAddPlayer(side)
  \/ \E side \in Sides : MutateRemovePlayer(side)

CloneSpec == CloneInit /\ [][CloneNext]_vars

----------------------------------------------------------------------------
(* Properties *)

LiveView == View(gameState, isFaceUp)

\* the card objects a state holds, in deck, discard pile, hands and cardsInPlay
RECURSIVE HandsOf(_)
HandsOf(players) ==
  IF players = <<>> THEN <<>> ELSE Head(players).hand \o HandsOf(Tail(players))

CardsHeld(gs) ==
  gs.deck \o gs.discardPile \o HandsOf(gs.players) \o gs.customState.cardsInPlay

\* every id of the constructor's deck is held exactly once
Conserved(gs) ==
  /\ Len(CardsHeld(gs)) = Len(initialDeck)
  /\ {IdOf(CardsHeld(gs)[i]) : i \in DOMAIN CardsHeld(gs)} = Range(initialDeck)

\* one start(), which dealt, and since then only playMove calls that returned
OneStart == startCalls = 1 /\ inits = 1

\* C1: after start() and N >= 1 accepted moves, one undo() leaves the live
\* state value-equal to the live state as it was after the first N-1 moves
C1_UndoIsExactInverse ==
  (OneStart /\ throws = 0 /\ rewinds = 1 /\ lastOp.op = "undo" /\ lastOp.ret = "true")
    => LiveView = truth[Len(truth)]

\* C2: a rejected playMove returns false and leaves the live state, the
\* history and the move log unchanged, so that the undo() after it succeeds
\* exactly when the history before the rejected call had more than one entry
C2_RejectedMoveChangesNothing ==
  [][ /\ (lastOp'.op = "playMove" /\ lastOp'.ret = "false")
          => /\ gameState' = gameState
             /\ isFaceUp' = isFaceUp
             /\ history' = history
             /\ moveHistory' = moveHistory
      /\ (lastOp.op = "playMove" /\ lastOp.ret = "false" /\ lastOp'.op = "undo")
          => ((lastOp'.ret = "true") <=> (Len(snapViews) > 1))
    ]_vars

\* a move of the current player was rejected by validateMove in a game with
\* an undoable history
C2_Witness ==
  /\ inits = 1 /\ Len(history) > 1
  /\ lastOp.op = "playMove" /\ lastOp.ret = "false" /\ lastOp.err = "invalid"

\* C3: every playMove call either changes nothing and returns false, or
\* takes the snapshot, applies the move, logs it, reports once and returns true
C3_PlayMoveAllOrNothing ==
  [][ lastOp'.op = "playMove"
        => \/ /\ lastOp'.ret = "false"
              /\ gameState' = gameState /\ isFaceUp' = isFaceUp
              /\ history' = history /\ moveHistory' = moveHistory
           \/ /\ lastOp'.ret = "true"
              /\ Len(history') = Len(history) + 1
              /\ Len(moveHistory') = Len(moveHistory) + 1
              /\ Len(lastOp'.out) = 1
    ]_vars

\* C4: in War, after initializeGame, the ids in deck, discard pile, hands and
\* cardsInPlay are the ids of the original deck, each exactly once
C4_WarCardConservation == (game = "war" /\ OneStart) => Conserved(gameState)

\* C5: in Go Fish, after initializeGame and every applyMove, every id of the
\* original deck is held exactly once by deck, discard pile, hands and customState
C5_FishCardConservation ==
  (game = "gofish" /\ OneStart /\ lastOp.op \in {"start", "playMove"})
    => Conserved(gameState)

\* C6: every history entry stays value-equal to what it was when it was taken
C6_SnapshotsStayEqual ==
  \A i \in DOMAIN history : View(history[i], isFaceUp) = snapViews[i]

\* C7: no change made through a clone c of s changes a value read through s,
\* and no change made through s changes a value read through c
C7_CloneIndependence ==
  [][ lastOp'.op = "mutate"
        => /\ lastOp'.err = "c" => View(gameState', isFaceUp') = View(gameState, isFaceUp)
           /\ lastOp'.err = "s" => View(history'[1], isFaceUp') = View(history[1], isFaceUp)
    ]_vars

\* C8: a successful restart() leaves the live state value-equal to history[0],
\* a history of that one entry and an empty move log, and a restart() right
\* after a restart() changes none of them
C8_RestartIdempotent ==
  [][ (lastOp'.op = "restart" /\ lastOp'.err = "")
        => /\ View(gameState', isFaceUp') = View(history'[1], isFaceUp')
           /\ Len(history') = 1
           /\ history'[1] = history[1]
           /\ moveHistory' = <<>>
           /\ lastOp'.again
                => /\ View(gameState', isFaceUp') = View(gameState, isFaceUp)
                   /\ history' = history
                   /\ moveHistory' = moveHistory
    ]_vars

\* restart() was called twice in a row on a game that had been played
C8_Witness ==
  inits = 1 /\ lastOp.op = "restart" /\ lastOp.err = "" /\ lastOp.again

\* C9: after restart() of a started game the current player exists and has
\* a move that playMove accepts
C9_RestartPlayable ==
  (inits >= 1 /\ lastOp.op = "restart" /\ lastOp.err = "")
    => /\ getPlayerById(gameState, getCurrentPlayerId(game, gameState)) # 0
       /\ \E move \in Moves :
            validateMove(game, gameState,
                         getPlayerById(gameState, getCurrentPlayerId(game, gameState)), move)

\* C10: after the first start(), under playMove, undo and restart,
\* moveHistory.length = history.length - 1
C10_MoveLogLockstep == OneStart => Len(moveHistory) = Len(history) - 1

\* C11: a successful start(), undo() or restart() calls renderGameState once;
\* a successful playMove calls showGameOver once when the move ended the game
\* and renderGameState once otherwise; a rejected playMove, an undo() with at
\* most one history entry and a restart() with empty history call showError
\* once and nothing else
C11_EffectsExactlyOnce ==
  [][ /\ (lastOp'.op = "start" /\ lastOp'.ret = "void")
          => lastOp'.out = <<"renderGameState">>
      /\ lastOp'.op = "undo"
          => /\ (lastOp'.ret = "true") <=> (Len(history) > 1)
             /\ lastOp'.out = IF Len(history) > 1 THEN <<"renderGameState">>
                               ELSE <<"showError">>
      /\ lastOp'.op = "restart"
          => lastOp'.out = IF Len(history) > 0 THEN <<"renderGameState">>
                           ELSE <<"showError">>
      /\ (lastOp'.op = "playMove" /\ lastOp'.ret = "true")
          => lastOp'.out = IF isGameOver(game, gameState') THEN <<"showGameOver">>
                           ELSE <<"renderGameState">>
      /\ (lastOp'.op = "playMove" /\ lastOp'.ret = "false")
          => lastOp'.out = <<"showError">>
    ]_vars

\* a move that ended the game was reported, in a game that had been rewound
C11_Witness ==
  /\ inits = 1 /\ rewinds > 0
  /\ lastOp.op = "playMove" /\ lastOp.ret = "true" /\ lastOp.out = <<"showGameOver">>

\* C12: in every reachable state currentPlayerId is the empty string or the
\* id of a player present in players
C12_CurrentPlayerPresent ==
  \/ gameState.currentPlayerId = ""
  \/ getPlayerById(gameState, gameState.currentPlayerId) # 0

\* C13: undo() with at most one history entry returns false and restart()
\* with empty history returns, each leaving the live state, the history and
\* the move log unchanged
C13_EmptyHistoryHarmless ==
  [][ /\ (lastOp'.op = "undo" /\ Len(history) <= 1)
          => /\ lastOp'.ret = "false"
             /\ gameState' = gameState /\ isFaceUp' = isFaceUp
             /\ history' = history /\ moveHistory' = moveHistory
      /\ (lastOp'.op = "restart" /\ Len(history) = 0)
          => /\ lastOp'.ret = "void"
             /\ gameState' = gameState /\ isFaceUp' = isFaceUp
             /\ history' = history /\ moveHistory' = moveHistory
    ]_vars

\* undo() failed on a started game whose history holds exactly one entry
C13_Witness ==
  inits = 1 /\ Len(history) = 1 /\ lastOp.op = "undo" /\ lastOp.ret = "false"

\* C14: undo() on a history of more than one entry returns true, removes
\* exactly the last history entry and the last move-log entry, and leaves the
\* live state value-equal to the new last history entry while sharing none of
\* the objects clone() copies with it; the same holds when the game was over
C14_UndoRestoresPrevious ==
  [][ (lastOp'.op = "undo" /\ Len(history) > 1)
        => /\ lastOp'.ret = "true"
           /\ history' = Front(history)
           /\ moveHistory' = Front(moveHistory)
           /\ View(gameState', isFaceUp') = View(history'[Len(history')], isFaceUp')
           /\ Range(gameState'.customState.cardsInPlay)
                \cap Range(history'[Len(history')].customState.cardsInPlay) = {}
    ]_vars

\* undo() succeeded on a game that was over and took back a logged move
C14_Witness ==
  /\ inits = 1 /\ lastOp.op = "undo" /\ lastOp.ret = "true" /\ lastOp.over
  /\ Len(history) = Len(moveHistory) + 1 /\ Len(moveHistory) >= 1

\* C15: for War and Go Fish, in every reachable state of a dealt game in
\* which isGameOver is false, getWinners returns the empty sequence
C15_NoWinnersBeforeGameOver ==
  (OneStart /\ throws = 0 /\ ~isGameOver(game, gameState))
    => getWinners(game, gameState) = <<>>

\* the number of books customState.books records for a player
BookCount(gs, id) ==
  LET books == getCustomState(gs, "books", <<>>)
      bi == BooksIndex(books, id)
  IN IF bi = 0 THEN 0 ELSE Len(books[bi].ranks)

\* the players whose number of books is maximal among all players
MostBooks(gs) ==
  {gs.players[i].id : i \in
     {i \in DOMAIN gs.players :
        \A j \in DOMAIN gs.players :
           BookCount(gs, gs.players[j].id) <= BookCount(gs, gs.players[i].id)}}

\* C16: when a Go Fish game is over, getWinners returns exactly the players
\* whose number of books is maximal among all players, each once, also when
\* that maximum is zero
C16_FishWinnersHaveMostBooks ==
  (game = "gofish" /\ OneStart /\ lastOp.op = "playMove" /\ lastOp.ret = "true"
     /\ isGameOver(game, gameState))
    => /\ Range(getWinners(game, gameState)) = MostBooks(gameState)
       /\ Len(getWinners(game, gameState)) = Cardinality(MostBooks(gameState))

\* C17: in War, whenever an applied move leaves isGameOver true, exactly one
\* player has an empty hand and getWinners returns exactly the id of the other
C17_WarSingleWinner ==
  (game = "war" /\ lastOp.op = "playMove" /\ lastOp.ret = "true"
     /\ isGameOver(game, gameState))
    => \E l, w \in DOMAIN gameState.players :
          /\ l # w
          /\ {i \in DOMAIN gameState.players : gameState.players[i].hand = <<>>} = {l}
          /\ getWinners(game, gameState) = <<gameState.players[w].id>>

\* the second move of a War game ended it
C17_Witness ==
  /\ game = "war" /\ OneStart /\ Len(moveHistory) = 2
  /\ lastOp.op = "playMove" /\ lastOp.ret = "true" /\ isGameOver(game, gameState)

\* C18: in Go Fish, after initializeGame and after every applyMove, no hand
\* holds four cards of one rank
C18_NoCompleteSetInHand ==
  (game = "gofish" /\ OneStart /\ lastOp.op \in {"start", "playMove"})
    => \A i \in DOMAIN gameState.players :
          \A k \in DOMAIN gameState.players[i].hand :
             Len(CardsOfRank(gameState.players[i].hand,
                             RankStr(gameState.players[i].hand[k]))) < 4

\* two different players of the state hold a card of the same rank
SharedRank(gs) ==
  \E p, q \in DOMAIN gs.players :
     /\ p # q
     /\ \E k \in DOMAIN gs.players[p].hand, l \in DOMAIN gs.players[q].hand :
          RankStr(gs.players[p].hand[k]) = RankStr(gs.players[q].hand[l])

MoveDone == lastOp.op = "playMove" /\ lastOp.ret = "true"

\* the snapshot the last playMove or start took before it changed the state
Before == history[Len(history)]

\* the move the last successful playMove logged, and the index of its player
LastMove == moveHistory[Len(moveHistory)].move

LastMover == getPlayerById(Before, moveHistory[Len(moveHistory)].playerId)

\* the state applyMove leaves when it is given the snapshot and the last move
Applied == applyMove(game, Before, isFaceUp, LastMover, LastMove).gs

\* C21: applyMove never changes currentPlayerId (it is unchanged after a
\* move that ended the game and after a move that threw), and nextTurn sets
\* it to what getNextPlayerId returns for the state applyMove left
C21_OnlyNextTurnAdvances ==
  /\ MoveDone
       => /\ Applied.currentPlayerId = Before.currentPlayerId
          /\ gameState.currentPlayerId =
               IF isGameOver(game, gameState) THEN Before.currentPlayerId
               ELSE getNextPlayerId(game, Applied)
  /\ (lastOp.op = "playMove" /\ lastOp.ret = "throw")
       => gameState.currentPlayerId = Before.currentPlayerId

\* a War move that did not end the game passed the turn to the other player
C21_Witness ==
  /\ game = "war" /\ MoveDone /\ ~isGameOver(game, gameState)
  /\ gameState.currentPlayerId # Before.currentPlayerId

\* the player count initializeGame rejects
WrongPlayerCount ==
  \/ game = "war" /\ Len(gameState.players) # 2
  \/ game = "gofish" /\ Len(gameState.players) < 2

\* C22: start() with War rules and a player count other than 2, or Go Fish
\* rules and fewer than 2 players, throws, and leaves deck, hands and
\* customState as they were before the call and renders nothing
C22_WrongPlayerCountAborts ==
  lastOp.op = "start"
    => /\ (lastOp.ret = "throw") <=> WrongPlayerCount
       /\ lastOp.ret = "throw"
            => /\ View(gameState, isFaceUp) = View(Before, isFaceUp)
               /\ lastOp.out = <<>>

\* start() threw on a War game with one player
C22_Witness ==
  /\ game = "war" /\ Len(gameState.players) = 1
  /\ lastOp.op = "start" /\ lastOp.ret = "throw"

\* the ids of a sequence of cards
Ids(cards) == [i \in 1..Len(cards) |-> IdOf(cards[i])]

\* the place of a card's rank in the order 2..10, J, Q, K, A
RankValue(ref) ==
  FindIndex({i \in DOMAIN ThirteenRanks : ThirteenRanks[i] = RankStr(ref)})

\* the last call was a War playMove that returned true
WarMove == game = "war" /\ MoveDone

\* the opponent of the mover, the card each revealed, the pile carried over
\* from earlier ties and the whole contested pile
Opponent == OtherIndex(Before, Before.players[LastMover].id)

Revealed(i) == Before.players[i].hand[1]

Carried == Ids(Before.customState.cardsInPlay)

Pile == Carried \o <<IdOf(Revealed(LastMover)), IdOf(Revealed(Opponent))>>

Tied == RankValue(Revealed(LastMover)) = RankValue(Revealed(Opponent))

\* the hand sizes right after the two cards were revealed
LeftInHand(i) == Len(Before.players[i].hand) - 1

\* player w has taken the contested pile and the round is closed
TookPile(w, l) ==
  /\ Ids(gameState.players[w].hand) = Ids(Tail(Before.players[w].hand)) \o Pile
  /\ Ids(gameState.players[l].hand) = Ids(Tail(Before.players[l].hand))
  /\ gameState.customState.cardsInPlay = <<>>
  /\ gameState.customState.warMode = FALSE
  /\ gameState.customState.roundWinner = Before.players[w].id

\* C24: in a War move whose revealed cards differ in rank, the player with
\* the higher card, mover or not, gets both revealed cards and every carried
\* card in hand; cardsInPlay is empty, warMode false and roundWinner that player
C24_HigherRankTakesAll ==
  (WarMove /\ ~Tied)
    => IF RankValue(Revealed(LastMover)) > RankValue(Revealed(Opponent))
       THEN TookPile(LastMover, Opponent)
       ELSE TookPile(Opponent, LastMover)

\* the opponent of the mover won a round that carried the pile of a war
C24_Witness ==
  /\ WarMove /\ ~Tied /\ Carried # <<>>
  /\ gameState.customState.roundWinner = Before.players[Opponent].id

\* C25: in a War move whose revealed cards tie while each player has at
\* least 4 cards left, warMode is true afterwards, cardsInPlay has grown by
\* exactly 8 cards (the 2 revealed and 3 from each hand) and no hand got a card
C25_WarCommitsEight ==
  (WarMove /\ Tied /\ LeftInHand(LastMover) >= 4 /\ LeftInHand(Opponent) >= 4)
    => /\ gameState.customState.warMode = TRUE
       /\ Len(gameState.customState.cardsInPlay) = Len(Carried) + 8
       /\ Range(Ids(gameState.customState.cardsInPlay))
            = Range(Pile)
              \cup {IdOf(Before.players[i].hand[k]) : i \in {LastMover, Opponent}, k \in 2..4}
       /\ \A i \in {LastMover, Opponent} :
             Ids(gameState.players[i].hand) = Ids(Drop(Before.players[i].hand, 4))

\* a tie opened a war from an empty pile
C25_Witness ==
  /\ WarMove /\ Tied /\ LeftInHand(LastMover) >= 4 /\ LeftInHand(Opponent) >= 4
  /\ Carried = <<>> /\ Len(gameState.customState.cardsInPlay) = 8

\* C26: in a War move whose revealed cards tie while a player has fewer
\* than 4 cards left, the player with more cards left takes the whole
\* contested pile and warMode is false afterwards
C26_ShortTieGoesToLargerHand ==
  (WarMove /\ Tied /\ (LeftInHand(LastMover) < 4 \/ LeftInHand(Opponent) < 4))
    => /\ gameState.customState.warMode = FALSE
       /\ LeftInHand(LastMover) > LeftInHand(Opponent) => TookPile(LastMover, Opponent)
       /\ LeftInHand(Opponent) > LeftInHand(LastMover) => TookPile(Opponent, LastMover)

\* a tie was settled by hand size between hands of different sizes
C26_Witness ==
  /\ WarMove /\ Tied /\ LeftInHand(LastMover) < 4
  /\ LeftInHand(LastMover) # LeftInHand(Opponent)

\* the last call was a Go Fish playMove that returned true
FishMove == game = "gofish" /\ MoveDone

\* the player asked and the rank asked for in the last move
Target == getPlayerById(Before, LastMove.targetPlayerId)

Asked == LastMove.rank

\* the ids of the cards of a rank among some cards
OfRank(cards, rank) ==
  {IdOf(cards[k]) : k \in {i \in DOMAIN cards : RankStr(cards[i]) = rank}}

\* how often a rank stands among the books of a player
TimesBooked(gs, id, rank) ==
  LET books == getCustomState(gs, "books", <<>>)
      bi == BooksIndex(books, id)
  IN IF bi = 0 THEN 0
     ELSE Cardinality({i \in DOMAIN books[bi].ranks : books[bi].ranks[i] = rank})

\* the player after the mover in the ring of players
RingNext == Before.players[(LastMover % Len(Before.players)) + 1].id

C28_MatchingDrawKeepsTurn ==
  (FishMove /\ OfRank(Before.players[Target].hand, Asked) = {} /\ Before.deck # <<>>)
    => LET me == Before.players[LastMover].id
           top == Before.deck[1]
           next == IF RankStr(top) = Asked THEN me ELSE RingNext
       IN /\ Ids(gameState.deck) = Ids(Tail(Before.deck))
          /\ \/ IdOf(top) \in Range(Ids(gameState.players[LastMover].hand))
             \/ TimesBooked(gameState, me, RankStr(top))
                  = TimesBooked(Before, me, RankStr(top)) + 1
          /\ Applied.customState.anotherTurn = (RankStr(top) = Asked)
          /\ getNextPlayerId(game, Applied) = next
          /\ ~isGameOver(game, gameState)
               => /\ gameState.currentPlayerId = next
                  /\ gameState.customState.anotherTurn = FALSE

\* the requester drew the rank asked for and is still the current player
C28_Witness ==
  /\ FishMove /\ OfRank(Before.players[Target].hand, Asked) = {} /\ Before.deck # <<>>
  /\ RankStr(Before.deck[1]) = Asked
  /\ ~isGameOver(game, gameState)
  /\ gameState.currentPlayerId = Before.players[LastMover].id

\* the requester drew another rank and the turn passed on
FishDrewOtherRank ==
  /\ FishMove /\ OfRank(Before.players[Target].hand, Asked) = {} /\ Before.deck # <<>>
  /\ RankStr(Before.deck[1]) # Asked
  /\ gameState.currentPlayerId = RingNext

\* the request move of the current player is valid, its target lacks the
\* rank and the deck is empty
EmptyDeckRequest(pi, move) ==
  /\ game = "gofish" /\ pi # 0
  /\ validateMove(game, gameState, pi, move)
  /\ OfRank(gameState.players[getPlayerById(gameState, move.targetPlayerId)].hand,
            move.rank) = {}
  /\ gameState.deck = <<>>

\* C29: a valid Go Fish request whose target lacks the rank while the deck
\* is empty does not make applyMove throw; playMove returns true, no hand
\* and no deck changes, anotherTurn is false and the turn passes on or the
\* game is over
C29_EmptyDeckIsNoError ==
  /\ \A move \in Moves :
       LET pi == getPlayerById(gameState, getCurrentPlayerId(game, gameState))
       IN EmptyDeckRequest(pi, move)
            => ~applyMove(game, gameState, isFaceUp, pi, move).threw
  /\ (FishMove /\ OfRank(Before.players[Target].hand, Asked) = {} /\ Before.deck = <<>>)
       => /\ \A i \in DOMAIN Before.players :
                Ids(gameState.players[i].hand) = Ids(Before.players[i].hand)
          /\ gameState.deck = <<>>
          /\ Applied.customState.anotherTurn = FALSE
          /\ gameState.customState.anotherTurn = FALSE
          /\ IF isGameOver(game, gameState)
             THEN /\ gameState.currentPlayerId = Before.players[LastMover].id
                  /\ lastOp.out = <<"showGameOver">>
             ELSE gameState.currentPlayerId = RingNext

\* a request met an empty deck and the turn passed on
C29_Witness ==
  /\ FishMove /\ OfRank(Before.players[Target].hand, Asked) = {} /\ Before.deck = <<>>
  /\ ~isGameOver(game, gameState)
  /\ gameState.currentPlayerId = RingNext

\* a request met an empty deck in a game that is over
FishEmptyDeckGameOver ==
  /\ FishMove /\ OfRank(Before.players[Target].hand, Asked) = {} /\ Before.deck = <<>>
  /\ isGameOver(game, gameState)

\* C23: once a War move made during autoPlay has made isGameOver true,
\* autoPlay issues no further playMove call
C23_AutoPlayStopsAtGameOver ==
  (game = "war" /\ auto.status \in {"running", "thrown"} /\ ~auto.overAtBegin
     /\ auto.attempts > 0 /\ lastOp.op = "playMove")
    => ~lastOp.over

\* C30: an autoPlay call never attempts more turns than its maxTurns, and
\* it returns with the message once the count is reached
C30_AutoPlayBounded ==
  /\ auto.attempts <= auto.maxTurns
  /\ (auto.status = "returned" /\ auto.turnCount >= auto.maxTurns)
       => lastOp.out = <<"showMessage">>

\* an autoPlay call returned after maxTurns turns, the last one rejected
C30_Witness ==
  /\ auto.status = "returned"
  /\ auto.maxTurns = MaxTurns
  /\ auto.attempts = auto.maxTurns
  /\ Len(moveHistory) < auto.maxTurns

\* the outcomes of an attempted turn
AutoTurnAccepted == auto.attempts > 0 /\ lastOp.op = "playMove" /\ lastOp.ret = "true"

AutoTurnRejected == auto.attempts > 0 /\ lastOp.op = "playMove" /\ lastOp.ret = "false"

AutoTurnNoMove == auto.attempts > 0 /\ lastOp.op = "playAITurn" /\ lastOp.ret = "false"

\* C31: draw(n) returns the first min(n, size) cards of the deck in order
\* and leaves the others in their order (nothing, without an error, from an
\* empty deck); addToTop(c) puts c first, so that it is the next card drawn;
\* addToBottom(c) puts c last, so that it is the last card drawn
C31_DeckOrder ==
  /\ lastOp.op = "draw"
       => LET k == IF lastOp.count < Len(lastOp.before) THEN lastOp.count
                   ELSE Len(lastOp.before)
          IN /\ Len(lastOp.cards) = k
             /\ \A i \in 1..k : lastOp.cards[i] = lastOp.before[i]
             /\ Len(gameState.deck) = Len(lastOp.before) - k
             /\ \A i \in 1..Len(gameState.deck) : gameState.deck[i] = lastOp.before[k + i]
             /\ (lastOp.prevOp = "addToTop" /\ lastOp.count >= 1)
                  => lastOp.cards[1] = lastOp.prevCard
             /\ (lastOp.prevOp = "addToBottom" /\ gameState.deck = <<>>)
                  => lastOp.cards[Len(lastOp.cards)] = lastOp.prevCard
  /\ lastOp.op = "addToTop"
       => /\ Len(gameState.deck) = Len(lastOp.before) + 1
          /\ gameState.deck[1] = lastOp.card
          /\ \A i \in 1..Len(lastOp.before) : gameState.deck[i + 1] = lastOp.before[i]
  /\ lastOp.op = "addToBottom"
       => /\ Len(gameState.deck) = Len(lastOp.before) + 1
          /\ gameState.deck[Len(gameState.deck)] = lastOp.card
          /\ \A i \in 1..Len(lastOp.before) : gameState.deck[i] = lastOp.before[i]

\* a card put on top of a deck that held other cards was drawn next, and
\* cards were left in the deck
C31_Witness ==
  /\ lastOp.op = "draw" /\ lastOp.prevOp = "addToTop"
  /\ lastOp.count >= 2 /\ Len(lastOp.before) > lastOp.count
  /\ lastOp.cards[1] = lastOp.prevCard

\* a draw from an empty deck
DeckDrawnEmpty == lastOp.op = "draw" /\ lastOp.count >= 1 /\ lastOp.before = <<>>

\* a card put at the bottom of a deck that held other cards was drawn last
DeckBottomDrawnLast ==
  /\ lastOp.op = "draw" /\ lastOp.prevOp = "addToBottom" /\ gameState.deck = <<>>
  /\ Len(lastOp.cards) >= 2

\* C32: after every accepted War move that does not end the game the
\* current player is the other player, not the one who moved
C32_WarPlayersAlternate ==
  (WarMove /\ ~isGameOver(game, gameState))
    => /\ Before.currentPlayerId = Before.players[LastMover].id
       /\ gameState.currentPlayerId = Before.players[Opponent].id
       /\ gameState.currentPlayerId # Before.currentPlayerId

\* the second player moved and the turn went back to the first
C32_Witness ==
  /\ WarMove /\ ~isGameOver(game, gameState)
  /\ LastMover = 2 /\ Len(moveHistory) >= 2
  /\ moveHistory[Len(moveHistory) - 1].playerId = gameState.currentPlayerId
  /\ gameState.currentPlayerId = gameState.players[1].id

\* the index of the current player, 0 when there is none
CurrentIndex == getPlayerById(gameState, getCurrentPlayerId(game, gameState))

\* the history and the heap have room for one more snapshot
CanSave == Len(history) < MaxHistory /\ CanClone(gameState, gens)

\* C33: a finished game still takes moves. After a move that ended the game
\* the mover is still the current player; whenever isGameOver holds, a move
\* of the current player that validateMove accepts is not turned down by
\* playMove: a snapshot is taken and applyMove runs (the call returns true or
\* throws); in War applyMove then runs against an opponent without cards
C33_NoFinishedState ==
  /\ (MoveDone /\ isGameOver(game, gameState))
       => gameState.currentPlayerId = Before.players[LastMover].id
  /\ (isGameOver(game, gameState) /\ CurrentIndex # 0 /\ CanSave)
       => \A move \in Moves :
            validateMove(game, gameState, CurrentIndex, move)
              => ENABLED (/\ PlayMove(gameState.currentPlayerId, move)
                          /\ lastOp'.ret \in {"true", "throw"}
                          /\ Len(history') = Len(history) + 1)
  /\ (game = "war" /\ lastOp.op = "playMove" /\ lastOp.over /\ lastOp.ret # "false")
       => Before.players[OtherIndex(Before, Before.currentPlayerId)].hand = <<>>

\* the player whose move ended a War game moved again: the move passed
\* validateMove and applyMove ran on the finished game
C33_Witness ==
  /\ game = "war" /\ lastOp.op = "playMove" /\ lastOp.over /\ lastOp.ret = "throw"
  /\ moveHistory # <<>>
  /\ moveHistory[Len(moveHistory)].playerId = Before.currentPlayerId
  /\ Before.players[OtherIndex(Before, Before.currentPlayerId)].hand = <<>>

\* a Go Fish move was accepted in a game that was over
FishMoveOnFinishedGame == FishMove /\ lastOp.over

\* a Go Fish state that is not over while its current player has no card
StuckIn(gs) ==
  /\ ~isGameOver("gofish", gs)
  /\ getPlayerById(gs, gs.currentPlayerId) # 0
  /\ gs.players[getPlayerById(gs, gs.currentPlayerId)].hand = <<>>

\* C34: in a Go Fish state that is not over while the current player's hand
\* is empty no playMove call of any player with any move gets past the
\* checks, and no playMove call that got past them started in such a state
C34_StuckGoFish ==
  /\ (game = "gofish" /\ StuckIn(gameState))
       => ~ENABLED (\E playerId \in CallerIds, move \in Moves :
                      PlayMove(playerId, move) /\ lastOp'.ret # "false")
  /\ (game = "gofish" /\ lastOp.op = "playMove" /\ lastOp.ret # "false")
       => ~StuckIn(Before)

\* a dealt game got stuck with cards in the deck and fewer than 13 books,
\* and a playMove call was turned down in that state
C34_Witness ==
  /\ game = "gofish" /\ inits > 0 /\ moveHistory # <<>>
  /\ StuckIn(gameState)
  /\ gameState.deck # <<>>
  /\ SumBooks(getCustomState(gameState, "books", <<>>)) < 13
  /\ lastOp.op = "playMove" /\ lastOp.ret = "false"

\* C35: after an accepted Go Fish move that granted no extra turn and did
\* not end the game, the current player is the one after the mover in
\* players order, the first after the last, whether or not it holds cards
C35_FishTurnOrder ==
  (FishMove /\ ~Applied.customState.anotherTurn)
    => /\ getNextPlayerId(game, Applied) = RingNext
       /\ ~isGameOver(game, gameState)
            => /\ gameState.currentPlayerId = RingNext
               /\ LastMover < Len(Before.players)
                    => gameState.currentPlayerId = Before.players[LastMover + 1].id
               /\ LastMover = Len(Before.players)
                    => gameState.currentPlayerId = Before.players[1].id

\* the turn wrapped from the last player to the first, who holds no card
C35_Witness ==
  /\ FishMove /\ ~Applied.customState.anotherTurn /\ ~isGameOver(game, gameState)
  /\ LastMover = Len(Before.players)
  /\ gameState.currentPlayerId = gameState.players[1].id
  /\ gameState.players[1].hand = <<>>

\* C36: a start() that initializeGame aborts has appended one snapshot to
\* history and left the move log alone; the first successful start() after
\* one aborted start() leaves history with two entries and an empty move log
C36_AbortedStartKeepsSnapshot ==
  [][ /\ (lastOp'.op = "start" /\ lastOp'.ret = "throw")
           => /\ Len(history') = Len(history) + 1
              /\ SubSeq(history', 1, Len(history)) = history
              /\ moveHistory' = moveHistory
      /\ (lastOp'.op = "start" /\ lastOp'.ret = "void" /\ startCalls = 1 /\ inits = 0)
           => /\ Len(history') = 2
              /\ moveHistory' = <<>>
    ]_vars

\* an aborted start() was followed by a successful one
C36_Witness ==
  /\ lastOp.op = "start" /\ lastOp.ret = "void"
  /\ startCalls = 2 /\ inits = 1
  /\ Len(history) = 2 /\ moveHistory = <<>>

\* C37: in War, in every state the engine rests in once initializeGame has
\* run, warMode is true exactly when cardsInPlay holds cards, and the number
\* of cards in cardsInPlay is a multiple of 8
C37_WarModeMatchesPile ==
  (game = "war" /\ inits > 0)
    => /\ getCustomState(gameState, "warMode", FALSE)
            <=> getCustomState(gameState, "cardsInPlay", <<>>) # <<>>
       /\ Len(getCustomState(gameState, "cardsInPlay", <<>>)) % 8 = 0

\* a war is open between two moves: eight cards lie in cardsInPlay
C37_Witness ==
  /\ game = "war" /\ inits > 0 /\ lastOp.op = "playMove" /\ lastOp.ret = "true"
  /\ getCustomState(gameState, "warMode", FALSE)
  /\ Len(getCustomState(gameState, "cardsInPlay", <<>>)) = 8

\* C38: in a War move whose revealed cards tie while a player has fewer
\* than 4 cards left and both hands have the same size, the player who did
\* not make the move takes the whole contested pile
C38_EqualShortTieGoesToOpponent ==
  (WarMove /\ Tied /\ LeftInHand(LastMover) < 4
     /\ LeftInHand(LastMover) = LeftInHand(Opponent))
    => /\ TookPile(Opponent, LastMover)
       /\ Opponent # LastMover

\* a tie between hands of the same size, with cards left in both
C38_Witness ==
  /\ WarMove /\ Tied
  /\ LeftInHand(LastMover) = LeftInHand(Opponent)
  /\ LeftInHand(LastMover) \in 1..3
  /\ Len(gameState.players[Opponent].hand) = LeftInHand(Opponent) + Len(Pile)

\* the last accepted War move ended in handleRoundWin
PileAwarded ==
  /\ WarMove
  /\ ~Tied \/ LeftInHand(LastMover) < 4 \/ LeftInHand(Opponent) < 4

\* C39: in Go Fish every player's score equals the number of books recorded
\* for that player in customState.books (0 without an entry) in every state
\* reachable by start, playMove, undo and restart; in War every player's
\* score equals the size of that player's hand after a move that awards a pile
C39_ScoreFollowsBooksAndHands ==
  /\ game = "gofish"
       => \A i \in DOMAIN gameState.players :
             gameState.players[i].score = BookCount(gameState, gameState.players[i].id)
  /\ PileAwarded
       => \A i \in DOMAIN gameState.players :
             gameState.players[i].score = Len(gameState.players[i].hand)

====
